---------------------------- MODULE Spec2Model ----------------------------
(***************************************************************************)
(* Model of the traffic simulation's ParkingLot (src/parking.cpp) and of   *)
(* the vehicle threads that use it (src/vehicle.cpp).                      *)
(*                                                                         *)
(* A ParkingLot is two counting semaphores (spots, queue), a mutex (lock)  *)
(* and, under the mutex, two counters and two bitmaps.  Every vehicle is a *)
(* thread; the semaphore operations and the lock acquisition are separate  *)
(* steps, so every interleaving the scheduler can produce is a behaviour.  *)
(***************************************************************************)
EXTENDS Integers, FiniteSets, Sequences, TLC

(***************************************************************************)
(* Bounds.  The source sets PARKING_CAPACITY = 10 and PARKING_QUEUE_SIZE = *)
(* 5 (src/simulation_types.h:21-22) and spawns threads without limit.  The *)
(* lot's code is uniform in both capacities; the model keeps the source's  *)
(* names and checks it for small capacities in the source's proportion of  *)
(* two spots to one queue slot.                                            *)
(***************************************************************************)
PARKING_CAPACITY == 2

PARKING_QUEUE_SIZE == 1

\* Number of vehicle threads alive at once.
NumVehicles == 3

Vehicles == 1..NumVehicles

\* Value of lock when no thread holds it.
NoThread == 0

Spots == 0..(PARKING_CAPACITY - 1)

QueueSlots == 0..(PARKING_QUEUE_SIZE - 1)

VARIABLES
    spots,              \* sem_t spots: its value
    queue,              \* sem_t queue: its value
    lock,               \* pthread_mutex_t lock: the holder, or NoThread
    occupiedSpots,      \* int occupiedSpots
    waitingCount,       \* int waitingCount
    spotOccupied,       \* bool spotOccupied[PARKING_CAPACITY]
    queueSlotOccupied,  \* bool queueSlotOccupied[PARKING_QUEUE_SIZE]
    pc,                 \* each vehicle thread's position
    queueIdx,           \* vehicle thread local: int queueIdx (enterQueue's result)
    spotIndex,          \* vehicle thread local: int spotIndex (waitForSpot's result)
    eqEffect            \* history: what the thread's enterQueue call did to the lot

lotVars == <<spots, queue, lock, occupiedSpots, waitingCount, spotOccupied, queueSlotOccupied>>

vehVars == <<pc, queueIdx, spotIndex, eqEffect>>

(***************************************************************************)
(* The gates.  Each controller process owns a gate (lightState, guarded by *)
(* lightMutex) and a ParkingLot, and runs its vehicles as threads.  The    *)
(* two processes share no memory, so the model holds the threads, the      *)
(* lightMutex and the lot of one process, proc, and the lightState of both *)
(* (a commuter of process 10 drives through intersection 11).              *)
(***************************************************************************)
VARIABLES
    proc,               \* the intersection whose process is modelled
    lightState,         \* TrafficLightState lightState of each controller
    lightMutex,         \* pthread_mutex_t lightMutex of proc: the holder, or NoThread
    vtype,              \* Vehicle::type of each thread's vehicle
    routine,            \* the thread function each thread runs
    state,              \* vehicle thread local: TrafficLightState state (the last poll)
    gateSeen            \* history: the intersections whose gate the thread has read GREEN

gateVars == <<proc, lightState, lightMutex, vtype, routine, state, gateSeen>>

(***************************************************************************)
(* Controller F11's phase loop and the coordination pipe it reads.         *)
(***************************************************************************)
VARIABLES
    ctlPc,              \* trafficControllerF11's position
    tick,               \* the loop variable i of its RED and GREEN polling loops
    coordPipe,          \* the CoordinationMessage frames written and not yet read
    emergencyMode       \* bool emergencyMode

\* Time in polling slices of 500 ms, for the specifications that count it:
\* the slices that the current sleep of controller F11 still has to run, and
\* for each frame in the coordination pipe the slices it has spent there.
VARIABLES nap, age

timeVars == <<nap, age>>

(***************************************************************************)
(* Controller F10's phase loop, the command pipe that the visualizer       *)
(* writes, and the telemetry pipe of controller F10's process.             *)
(***************************************************************************)
VARIABLES
    f10Pc,              \* trafficControllerF10's position
    f10Tick,            \* the loop variable i of its RED and GREEN loops
    cmdPipe,            \* the CommandMessage frames to F10, written and not yet read
    clicks,             \* the button clicks of the visualizer so far
    vehicleIdCounter,   \* int vehicleIdCounter of controller F10
    commuterIdCounter,  \* int commuterIdCounter of controller F10
    started,            \* the vehicles that the controller's last step started
    issued,             \* the ids given to vehicles so far, each with how often
    telemetry,          \* the PipeMessage frames from F10, written and not yet read
    visOpen             \* window.isOpen() of the visualizer

f10Vars == <<f10Pc, f10Tick, cmdPipe, clicks, vehicleIdCounter,
             commuterIdCounter, started, issued, telemetry, visOpen>>

\* The last LIGHT_UPDATE frame that each controller has written.
VARIABLES lastLight

(***************************************************************************)
(* The telemetry pipe as the words on it, and the visualizer that reads    *)
(* it.                                                                     *)
(***************************************************************************)
VARIABLES
    wire,               \* the words written to pipeF10ToVis and not yet read
    sent,               \* history: the frames written, in the order of the writes
    accepted,           \* history: the VehicleStates the visualizer has stored
    vis                 \* the visualizer's vehicles, lightF10, parkingQueueCountF10

wireVars == <<wire, sent, accepted, vis>>

(***************************************************************************)
(* The vehicles' own telemetry.                                            *)
(***************************************************************************)
VARIABLES
    active,             \* Vehicle::active of the vehicle of each thread
    tele,               \* history: the isActive flags of the frames it has written
    lastFrame           \* the most recent VEHICLE_UPDATE that it has written

teleVars == <<active, tele, lastFrame>>

(***************************************************************************)
(* The command pipe of controller F10 as the words on it.                  *)
(***************************************************************************)
VARIABLES
    cmdWire,            \* the words written to pipeCmdToF10 and not yet read
    cmdSent,            \* history: the frames written, in the order of the writes
    cmdApplied          \* history: the commands whose switch branch has run

cmdWireVars == <<cmdWire, cmdSent, cmdApplied>>

(***************************************************************************)
(* The command switch of controller F10 at its two poll points.            *)
(***************************************************************************)
VARIABLES
    pollAt,             \* the poll point whose read took the command, or "none"
    polled,             \* the command of the frame that the read took
    spawnLog            \* the vehicles that the branch started, in order

switchVars == <<pollAt, polled, spawnLog>>

\* The controllers, the pipes and the visualizer.
ctlCore == <<ctlPc, tick, coordPipe, emergencyMode, timeVars, f10Vars, lastLight, wireVars,
             cmdWireVars, switchVars>>

ctlVars == <<ctlCore, teleVars>>

\* What the ParkingLot's code never touches.
envVars == <<gateVars, ctlVars>>

\* What a vehicle that writes telemetry between two calls leaves alone.
quietVars == <<gateVars, ctlCore>>

vars == <<lotVars, vehVars, envVars>>

\* intersectionId of the two controllers.
Intersections == {10, 11}

\* enum class VehicleType
VehicleType == {"AMBULANCE", "FIRETRUCK", "BUS", "CAR", "BIKE", "TRACTOR"}

\* The types that the gate poll lets through whatever the gate's state.
EmergencyTypes == {"AMBULANCE", "FIRETRUCK"}

\* The types whose threads use the parking lot.
ParkingTypes == {"CAR", "BIKE"}

\* vtype and routine of a thread slot that runs no vehicle, and state before
\* the thread's first poll.
NoType == "NONE"

NoRoutine == "none"

NoState == "NONE"

\* The thread functions a controller process starts (pthread_create).
RoutinesOf(i) ==
    IF i = 10
    THEN {"vehicleThreadFunc", "commuterThreadFunc"}
    ELSE {"f11VehicleThreadFunc", "f11LocalVehicleThreadFunc"}

Routines == RoutinesOf(10) \cup RoutinesOf(11)

\* The types a controller gives to the vehicles of a routine: commuters are
\* CAR or BIKE; the others get rand() % 6, AMBULANCE, CAR or rand() % 4 + 2.
SpawnTypes(r) == IF r = "commuterThreadFunc" THEN ParkingTypes ELSE VehicleType

\* int commuterIdCounter = 50
CommuterIdBase == 50

\* The initial batch of controller F10: 3 local vehicles and 2 commuters.
InitialLocals == 3

InitialCommuters == 2

\* The frames of the controllers in the telemetry pipes.
LightUpdate(i, s) == [type |-> "LIGHT_UPDATE", intersectionId |-> i, state |-> s]

ParkingUpdate(i, n) == [type |-> "PARKING_UPDATE", intersectionId |-> i, waitingCount |-> n]

\* lastLight of a controller that has written no LIGHT_UPDATE yet.
NoFrame == [type |-> "NONE", intersectionId |-> 0, state |-> "NONE"]

\* started when the controller's last read found no command.
NoneStarted == [local |-> 0, commuter |-> 0, ambulance |-> 0]

\* Controller F10 at the top of its phase loop, after its initial batch, its
\* pipes empty and the visualizer's window open.
F10Init ==
    /\ f10Pc = "top"
    /\ f10Tick = 0
    /\ cmdPipe = <<>>
    /\ clicks = 0
    /\ vehicleIdCounter = InitialLocals
    /\ commuterIdCounter = CommuterIdBase + InitialCommuters
    /\ started = NoneStarted
    /\ issued = (0..(InitialLocals - 1))
                   \cup (CommuterIdBase..(CommuterIdBase + InitialCommuters - 1))
    /\ telemetry = <<>>
    /\ visOpen = TRUE
    /\ lastLight = [i \in Intersections |-> NoFrame]

\* No VehicleState stored under an id.
NoVehicle == [id |-> -1]

\* The telemetry pipe empty; the visualizer's map empty, its lightF10 RED
\* and its parkingQueueCountF10 0.
WireInit ==
    /\ wire = <<>>
    /\ sent = <<>>
    /\ accepted = <<>>
    /\ vis = [vehicles |-> [i \in {} |-> NoVehicle], lightF10 |-> "RED",
              parkingQueueCountF10 |-> 0]

\* The controllers at the top of their phase loops, the coordination pipe
\* empty.
CtlInit ==
    /\ ctlPc = "top"
    /\ tick = 0
    /\ coordPipe = <<>>
    /\ emergencyMode = FALSE
    /\ nap = 0
    /\ age = <<>>
    /\ F10Init
    /\ WireInit
    /\ cmdWire = <<>>
    /\ cmdSent = <<>>
    /\ cmdApplied = <<>>
    /\ pollAt = "none"
    /\ polled = "NONE"
    /\ spawnLog = <<>>

(***************************************************************************)
(* The gates, the vehicles' types and controller F11 as the specifications *)
(* of the lot alone hold them: every vehicle is a direct-route CAR of      *)
(* process 10 that has passed its gate, and the phase loop stands still.   *)
(***************************************************************************)
EnvInit(threads) ==
    /\ proc = 10
    /\ lightState = [i \in Intersections |-> "RED"]
    /\ lightMutex = NoThread
    /\ vtype = [v \in threads |-> "CAR"]
    /\ routine = [v \in threads |-> "vehicleThreadFunc"]
    /\ state = [v \in threads |-> "GREEN"]
    /\ gateSeen = [v \in threads |-> {10}]
    /\ CtlInit

\* The effect of an enterQueue call that changed nothing.
NoEffect == [units |-> 0, waiting |-> 0, slot |-> -1, ahead |-> {}]

\* The places of the lot's queue: the length of queueSlotOccupied, which is
\* PARKING_QUEUE_SIZE in the lot that the constructor builds.
QueuePlaces == Cardinality(DOMAIN queueSlotOccupied)

\* The vehicles that are in the queue and wait for a spot when v is given
\* its slot i.
AheadOf(v, i) ==
    IF i = -1 THEN {} ELSE {w \in (DOMAIN pc) \ {v} : pc[w] \in {"queued", "ws_wait"}}

(***************************************************************************)
(* The first-fit linear scan of enterQueue and waitForSpot: the lowest     *)
(* index whose entry is false, or -1 (the initial value of the result      *)
(* variable) when the loop ends without a break.                           *)
(***************************************************************************)
\* Mutant: the test of the entry is dropped, so the scan stops at index 0.
FirstFree_NoCheck(bitmap, n) == IF n > 0 THEN 0 ELSE -1

\* Mutant: the scan runs from the top, so it yields the highest free index.
FirstFree_Highest(bitmap, n) ==
    IF \E i \in 0..(n - 1) : ~bitmap[i]
    THEN CHOOSE i \in 0..(n - 1) : ~bitmap[i] /\ \A j \in (i + 1)..(n - 1) : bitmap[j]
    ELSE -1

FirstFree(bitmap, n) ==
    IF \E i \in 0..(n - 1) : ~bitmap[i]
    THEN CHOOSE i \in 0..(n - 1) : ~bitmap[i] /\ \A j \in 0..(i - 1) : bitmap[j]
    ELSE -1

\* Number of set entries of a bitmap.
PopCount(bitmap) == Cardinality({i \in DOMAIN bitmap : bitmap[i]})

(***************************************************************************)
(* ParkingLot::ParkingLot and the state before any vehicle is spawned.     *)
(***************************************************************************)
LotInit ==
    /\ spots = PARKING_CAPACITY
    /\ queue = PARKING_QUEUE_SIZE
    /\ lock = NoThread
    /\ occupiedSpots = 0
    /\ waitingCount = 0
    /\ spotOccupied = [i \in Spots |-> FALSE]
    /\ queueSlotOccupied = [i \in QueueSlots |-> FALSE]

\* The history of a vehicle that has written no frame.
NoUpdates == "none"

\* Vehicle::sendUpdate(parked): the flags of the VEHICLE_UPDATE frame of the
\* vehicle of thread v.  The thread sets isInQueue and queueIndex together,
\* to true and the index that enterQueue returned if that is not -1, and to
\* false and -1 after waitForSpot.
UpdateFrame(v, isActive, parked) ==
    [isActive |-> isActive, isParked |-> parked,
     isInQueue |-> queueIdx[v] # -1, queueIndex |-> queueIdx[v]]

\* What the consumer has of a vehicle that is not on its map.
NoUpdate == [isActive |-> FALSE, isParked |-> FALSE, isInQueue |-> FALSE, queueIndex |-> -1]

\* The history after one more VEHICLE_UPDATE with isActive = a: "active"
\* while every frame so far said true, "final" when the last frame is the
\* only one that said false, "broken" after any other sequence.
Emitted(h, a) ==
    IF h \in {NoUpdates, "active"}
    THEN IF a THEN "active" ELSE "final"
    ELSE "broken"

\* No vehicle thread runs.
VehInit(threads) ==
    /\ pc = [v \in threads |-> "idle"]
    /\ queueIdx = [v \in threads |-> -1]
    /\ spotIndex = [v \in threads |-> -1]
    /\ eqEffect = [v \in threads |-> NoEffect]
    /\ active = [v \in threads |-> FALSE]
    /\ tele = [v \in threads |-> NoUpdates]
    /\ lastFrame = [v \in threads |-> NoUpdate]

Init ==
    /\ LotInit
    /\ VehInit(Vehicles)
    /\ EnvInit(Vehicles)

(***************************************************************************)
(* A vehicle thread that will park (a CAR or BIKE past its gate) reaches   *)
(* the call of enterQueue.                                                 *)
(***************************************************************************)
Spawn(v) ==
    /\ pc[v] = "idle"
    /\ UNCHANGED quietVars
    /\ active' = [active EXCEPT ![v] = TRUE]                      \* active(true)
    /\ tele' = [tele EXCEPT ![v] = Emitted(NoUpdates, active'[v])]
    /\ lastFrame' = [lastFrame EXCEPT ![v] = UpdateFrame(v, active'[v], FALSE)]
    /\ pc' = [pc EXCEPT ![v] = "enter"]
    /\ eqEffect' = [eqEffect EXCEPT ![v] = NoEffect]
    /\ UNCHANGED <<lotVars, queueIdx, spotIndex>>

(***************************************************************************)
(* ParkingLot::enterQueue                                                  *)
(***************************************************************************)
\* Mutant: sem_wait(&queue), which blocks while the value is 0.
EnterQueueTry_Blocks(v) ==
    /\ pc[v] = "enter"
    /\ UNCHANGED envVars
    /\ queue > 0
    /\ queue' = queue - 1
    /\ pc' = [pc EXCEPT ![v] = "eq_lock"]
    /\ eqEffect' = [eqEffect EXCEPT ![v].units = 1]
    /\ UNCHANGED <<spots, lock, occupiedSpots, waitingCount, spotOccupied,
                   queueSlotOccupied, queueIdx, spotIndex>>

\* sem_trywait(&queue): fails, and enterQueue returns -1, when the value is 0.
EnterQueueTry(v) ==
    /\ pc[v] = "enter"
    /\ UNCHANGED envVars
    /\ IF queue = 0
       THEN /\ pc' = [pc EXCEPT ![v] = "cross"]
            /\ queueIdx' = [queueIdx EXCEPT ![v] = -1]
            /\ UNCHANGED <<queue, eqEffect>>
       ELSE /\ queue' = queue - 1
            /\ pc' = [pc EXCEPT ![v] = "eq_lock"]
            /\ eqEffect' = [eqEffect EXCEPT ![v].units = 1]
            /\ UNCHANGED queueIdx
    /\ UNCHANGED <<spots, lock, occupiedSpots, waitingCount, spotOccupied,
                   queueSlotOccupied, spotIndex>>

\* pthread_mutex_lock(&lock)
EnterQueueLock(v) ==
    /\ pc[v] = "eq_lock"
    /\ UNCHANGED envVars
    /\ lock = NoThread
    /\ lock' = v
    /\ pc' = [pc EXCEPT ![v] = "eq_count"]
    /\ UNCHANGED <<spots, queue, occupiedSpots, waitingCount, spotOccupied,
                   queueSlotOccupied, queueIdx, spotIndex, eqEffect>>

\* waitingCount++
EnterQueueCount(v) ==
    /\ pc[v] = "eq_count"
    /\ UNCHANGED envVars
    /\ lock = v
    /\ waitingCount' = waitingCount + 1
    /\ pc' = [pc EXCEPT ![v] = "eq_scan"]
    /\ eqEffect' = [eqEffect EXCEPT ![v].waiting = 1]
    /\ UNCHANGED <<spots, queue, lock, occupiedSpots, spotOccupied,
                   queueSlotOccupied, queueIdx, spotIndex>>

\* Mutant: the caller takes every return of enterQueue for a slot.
EnterQueueScan_ResultIgnored(v) ==
    /\ pc[v] = "eq_scan"
    /\ UNCHANGED envVars
    /\ lock = v
    /\ LET i == FirstFree(queueSlotOccupied, QueuePlaces) IN
         /\ queueSlotOccupied' =
                IF i = -1 THEN queueSlotOccupied
                ELSE [queueSlotOccupied EXCEPT ![i] = TRUE]
         /\ queueIdx' = [queueIdx EXCEPT ![v] = i]
         /\ eqEffect' = [eqEffect EXCEPT ![v].slot = i, ![v].ahead = AheadOf(v, i)]
         /\ pc' = [pc EXCEPT ![v] = "queued"]
    /\ lock' = NoThread
    /\ UNCHANGED <<spots, queue, occupiedSpots, waitingCount, spotOccupied, spotIndex>>

\* The scan for a free queue slot, pthread_mutex_unlock and the return; the
\* caller goes on to the queue box, or to CROSS when it got -1.
EnterQueueScan(v) ==
    /\ pc[v] = "eq_scan"
    /\ UNCHANGED envVars
    /\ lock = v
    /\ LET i == FirstFree(queueSlotOccupied, QueuePlaces) IN
         /\ queueSlotOccupied' =
                IF i = -1 THEN queueSlotOccupied
                ELSE [queueSlotOccupied EXCEPT ![i] = TRUE]
         /\ queueIdx' = [queueIdx EXCEPT ![v] = i]
         /\ eqEffect' = [eqEffect EXCEPT ![v].slot = i, ![v].ahead = AheadOf(v, i)]
         /\ pc' = [pc EXCEPT ![v] = IF i # -1 THEN "queued" ELSE "cross"]
    /\ lock' = NoThread
    /\ UNCHANGED <<spots, queue, occupiedSpots, waitingCount, spotOccupied, spotIndex>>

(***************************************************************************)
(* ParkingLot::waitForSpot                                                 *)
(***************************************************************************)
\* Mutant: sem_post(&queue) comes first, before the wait for a spot.
WaitForSpotCall_PostsQueue(v) ==
    /\ pc[v] = "queued"
    /\ UNCHANGED envVars
    /\ queue' = queue + 1
    /\ pc' = [pc EXCEPT ![v] = "ws_wait"]
    /\ UNCHANGED <<spots, lock, occupiedSpots, waitingCount, spotOccupied,
                   queueSlotOccupied, queueIdx, spotIndex, eqEffect>>

\* The queued vehicle has reached its queue box and calls waitForSpot(queueIdx).
WaitForSpotCall(v) ==
    /\ pc[v] = "queued"
    /\ UNCHANGED <<quietVars, active>>
    /\ tele' = [tele EXCEPT ![v] = Emitted(tele[v], active[v])]   \* v->sendUpdate()
    /\ lastFrame' = [lastFrame EXCEPT ![v] = UpdateFrame(v, active[v], FALSE)]
    /\ pc' = [pc EXCEPT ![v] = "ws_wait"]
    /\ UNCHANGED <<lotVars, queueIdx, spotIndex, eqEffect>>

\* Mutant: sem_trywait(&spots) with its result ignored, which never blocks.
WaitForSpotSemWait_NoBlock(v) ==
    /\ pc[v] = "ws_wait"
    /\ UNCHANGED envVars
    /\ spots' = IF spots > 0 THEN spots - 1 ELSE 0
    /\ pc' = [pc EXCEPT ![v] = "ws_post"]
    /\ UNCHANGED <<queue, lock, occupiedSpots, waitingCount, spotOccupied,
                   queueSlotOccupied, queueIdx, spotIndex, eqEffect>>

\* Mutant: the units of the spots semaphore are granted in the order of the
\* queue.
WaitForSpotSemWait_InOrder(v) ==
    /\ pc[v] = "ws_wait"
    /\ UNCHANGED envVars
    /\ spots > 0
    /\ \A w \in eqEffect[v].ahead : pc[w] \notin {"queued", "ws_wait"}
    /\ spots' = spots - 1
    /\ pc' = [pc EXCEPT ![v] = "ws_post"]
    /\ UNCHANGED <<queue, lock, occupiedSpots, waitingCount, spotOccupied,
                   queueSlotOccupied, queueIdx, spotIndex, eqEffect>>

\* sem_wait(&spots): blocks while the value is 0.
WaitForSpotSemWait(v) ==
    /\ pc[v] = "ws_wait"
    /\ UNCHANGED envVars
    /\ spots > 0
    /\ spots' = spots - 1
    /\ pc' = [pc EXCEPT ![v] = "ws_post"]
    /\ UNCHANGED <<queue, lock, occupiedSpots, waitingCount, spotOccupied,
                   queueSlotOccupied, queueIdx, spotIndex, eqEffect>>

\* sem_post(&queue)
WaitForSpotSemPost(v) ==
    /\ pc[v] = "ws_post"
    /\ UNCHANGED envVars
    /\ queue' = queue + 1
    /\ pc' = [pc EXCEPT ![v] = "ws_lock"]
    /\ UNCHANGED <<spots, lock, occupiedSpots, waitingCount, spotOccupied,
                   queueSlotOccupied, queueIdx, spotIndex, eqEffect>>

\* pthread_mutex_lock(&lock)
WaitForSpotLock(v) ==
    /\ pc[v] = "ws_lock"
    /\ UNCHANGED envVars
    /\ lock = NoThread
    /\ lock' = v
    /\ pc' = [pc EXCEPT ![v] = "ws_dequeue"]
    /\ UNCHANGED <<spots, queue, occupiedSpots, waitingCount, spotOccupied,
                   queueSlotOccupied, queueIdx, spotIndex, eqEffect>>

\* waitingCount--, and the bounds-checked clearing of the caller's queue slot.
WaitForSpotDequeue(v) ==
    /\ pc[v] = "ws_dequeue"
    /\ UNCHANGED envVars
    /\ lock = v
    /\ waitingCount' = waitingCount - 1
    /\ queueSlotOccupied' =
           IF queueIdx[v] >= 0 /\ queueIdx[v] < QueuePlaces
           THEN [queueSlotOccupied EXCEPT ![queueIdx[v]] = FALSE]
           ELSE queueSlotOccupied
    /\ pc' = [pc EXCEPT ![v] = "ws_scan"]
    /\ UNCHANGED <<spots, queue, lock, occupiedSpots, spotOccupied,
                   queueIdx, spotIndex, eqEffect>>

\* Mutant: the caller keeps isInQueue and queueIndex after waitForSpot.
WaitForSpotScan_KeepsIndex(v) ==
    /\ pc[v] = "ws_scan"
    /\ UNCHANGED envVars
    /\ lock = v
    /\ occupiedSpots' = occupiedSpots + 1
    /\ LET i == FirstFree(spotOccupied, PARKING_CAPACITY) IN
         /\ spotOccupied' =
                IF i = -1 THEN spotOccupied ELSE [spotOccupied EXCEPT ![i] = TRUE]
         /\ spotIndex' = [spotIndex EXCEPT ![v] = i]
    /\ lock' = NoThread
    /\ pc' = [pc EXCEPT ![v] = "parked"]
    /\ UNCHANGED <<spots, queue, waitingCount, queueSlotOccupied, eqEffect, queueIdx>>

\* occupiedSpots++, the scan for a free spot, pthread_mutex_unlock and the
\* return; the caller drives to the spot and parks.
WaitForSpotScan(v) ==
    /\ pc[v] = "ws_scan"
    /\ UNCHANGED envVars
    /\ lock = v
    /\ occupiedSpots' = occupiedSpots + 1
    /\ LET i == FirstFree(spotOccupied, PARKING_CAPACITY) IN
         /\ spotOccupied' =
                IF i = -1 THEN spotOccupied ELSE [spotOccupied EXCEPT ![i] = TRUE]
         /\ spotIndex' = [spotIndex EXCEPT ![v] = i]
    /\ lock' = NoThread
    /\ queueIdx' = [queueIdx EXCEPT ![v] = -1]      \* v->queueIndex = -1
    /\ pc' = [pc EXCEPT ![v] = "parked"]
    /\ UNCHANGED <<spots, queue, waitingCount, queueSlotOccupied, eqEffect>>

(***************************************************************************)
(* ParkingLot::leave                                                       *)
(***************************************************************************)
\* The dwell is over: leave(spotIndex) takes the lock.
LeaveLock(v) ==
    /\ pc[v] = "parked"
    /\ UNCHANGED <<quietVars, active>>
    /\ tele' = [tele EXCEPT ![v] = Emitted(tele[v], active[v])]   \* v->sendUpdate(true)
    /\ lastFrame' = [lastFrame EXCEPT ![v] = UpdateFrame(v, active[v], TRUE)]
    /\ lock = NoThread
    /\ lock' = v
    /\ pc' = [pc EXCEPT ![v] = "lv_clear"]
    /\ UNCHANGED <<spots, queue, occupiedSpots, waitingCount, spotOccupied,
                   queueSlotOccupied, queueIdx, spotIndex, eqEffect>>

\* Mutant: the bounds check reads spotIndex > 0, so spot 0 is never cleared.
LeaveClear_WrongBound(v) ==
    /\ pc[v] = "lv_clear"
    /\ UNCHANGED envVars
    /\ lock = v
    /\ spotOccupied' =
           IF spotIndex[v] > 0 /\ spotIndex[v] < PARKING_CAPACITY
           THEN [spotOccupied EXCEPT ![spotIndex[v]] = FALSE]
           ELSE spotOccupied
    /\ occupiedSpots' = occupiedSpots - 1
    /\ lock' = NoThread
    /\ pc' = [pc EXCEPT ![v] = "lv_post"]
    /\ UNCHANGED <<spots, queue, waitingCount, queueSlotOccupied, queueIdx, spotIndex,
                   eqEffect>>

\* The bounds-checked clearing of the spot, occupiedSpots-- and the unlock.
LeaveClear(v) ==
    /\ pc[v] = "lv_clear"
    /\ UNCHANGED envVars
    /\ lock = v
    /\ spotOccupied' =
           IF spotIndex[v] >= 0 /\ spotIndex[v] < PARKING_CAPACITY
           THEN [spotOccupied EXCEPT ![spotIndex[v]] = FALSE]
           ELSE spotOccupied
    /\ occupiedSpots' = occupiedSpots - 1
    /\ lock' = NoThread
    /\ pc' = [pc EXCEPT ![v] = "lv_post"]
    /\ UNCHANGED <<spots, queue, waitingCount, queueSlotOccupied, queueIdx, spotIndex,
                   eqEffect>>

\* Mutant: leave returns without sem_post(&spots).
LeavePost_NoPost(v) ==
    /\ pc[v] = "lv_post"
    /\ UNCHANGED envVars
    /\ spotIndex' = [spotIndex EXCEPT ![v] = -1]
    /\ pc' = [pc EXCEPT ![v] = "exit"]
    /\ UNCHANGED <<spots, queue, lock, occupiedSpots, waitingCount, spotOccupied,
                   queueSlotOccupied, queueIdx, eqEffect>>

\* Mutant: leave posts the spots semaphore twice.
LeavePost_Twice(v) ==
    /\ pc[v] = "lv_post"
    /\ UNCHANGED envVars
    /\ spots' = spots + 2
    /\ spotIndex' = [spotIndex EXCEPT ![v] = -1]
    /\ pc' = [pc EXCEPT ![v] = "exit"]
    /\ UNCHANGED <<queue, lock, occupiedSpots, waitingCount, spotOccupied,
                   queueSlotOccupied, queueIdx, eqEffect>>

\* sem_post(&spots) and the return, which ends the life of the argument
\* spotIndex; the vehicle drives back to the road.
LeavePost(v) ==
    /\ pc[v] = "lv_post"
    /\ UNCHANGED envVars
    /\ spots' = spots + 1
    /\ spotIndex' = [spotIndex EXCEPT ![v] = -1]
    /\ pc' = [pc EXCEPT ![v] = "exit"]
    /\ UNCHANGED <<queue, lock, occupiedSpots, waitingCount, spotOccupied,
                   queueSlotOccupied, queueIdx, eqEffect>>

(***************************************************************************)
(* The end of the thread function: the vehicle, rejected (CROSS) or        *)
(* unparked, drives to its end point and the thread returns.  The thread   *)
(* slot is free for the next vehicle the controller spawns.                *)
(***************************************************************************)
\* Mutant: the last frame is written before active is cleared.
VehicleExit_FrameBeforeFlag(v) ==
    /\ pc[v] \in {"cross", "exit"}
    /\ UNCHANGED quietVars
    /\ tele' = [tele EXCEPT ![v] = Emitted(Emitted(tele[v], active[v]), active[v])]
    /\ lastFrame' = [lastFrame EXCEPT ![v] = UpdateFrame(v, active[v], FALSE)]
    /\ active' = [active EXCEPT ![v] = FALSE]
    /\ pc' = [pc EXCEPT ![v] = "idle"]
    /\ queueIdx' = [queueIdx EXCEPT ![v] = -1]
    /\ spotIndex' = [spotIndex EXCEPT ![v] = -1]
    /\ eqEffect' = [eqEffect EXCEPT ![v] = NoEffect]
    /\ UNCHANGED lotVars

VehicleExit(v) ==
    /\ pc[v] \in {"cross", "exit"}
    /\ UNCHANGED quietVars
    /\ active' = [active EXCEPT ![v] = FALSE]                     \* v->active = false
    /\ tele' = [tele EXCEPT ![v] =                                \* v->sendUpdate()
                    Emitted(Emitted(tele[v], active[v]), active'[v])]
    /\ lastFrame' = [lastFrame EXCEPT ![v] = UpdateFrame(v, active'[v], FALSE)]
    /\ pc' = [pc EXCEPT ![v] = "idle"]
    /\ queueIdx' = [queueIdx EXCEPT ![v] = -1]
    /\ spotIndex' = [spotIndex EXCEPT ![v] = -1]
    /\ eqEffect' = [eqEffect EXCEPT ![v] = NoEffect]
    /\ UNCHANGED lotVars

Next ==
    \E v \in Vehicles :
        \/ Spawn(v)
        \/ EnterQueueTry(v)
        \/ EnterQueueLock(v)
        \/ EnterQueueCount(v)
        \/ EnterQueueScan(v)
        \/ WaitForSpotCall(v)
        \/ WaitForSpotSemWait(v)
        \/ WaitForSpotSemPost(v)
        \/ WaitForSpotLock(v)
        \/ WaitForSpotDequeue(v)
        \/ WaitForSpotScan(v)
        \/ LeaveLock(v)
        \/ LeaveClear(v)
        \/ LeavePost(v)
        \/ VehicleExit(v)

Spec == Init /\ [][Next]_vars

(***************************************************************************)
(* Scheduling.  A thread that can run does run: its steps that wait for    *)
(* nothing are weakly fair.  A thread blocked in sem_wait or in            *)
(* pthread_mutex_lock is woken when the semaphore or the mutex is free     *)
(* often enough, even if other threads take it in between (fair wake-up):  *)
(* these steps are strongly fair.  Nothing obliges the controller to spawn *)
(* another vehicle.                                                        *)
(***************************************************************************)
\* The steps of thread v that wait for no other thread.
Runs(v) ==
    \/ EnterQueueTry(v)
    \/ EnterQueueCount(v)
    \/ EnterQueueScan(v)
    \/ WaitForSpotCall(v)
    \/ WaitForSpotSemPost(v)
    \/ WaitForSpotDequeue(v)
    \/ WaitForSpotScan(v)
    \/ LeaveClear(v)
    \/ LeavePost(v)
    \/ VehicleExit(v)

\* The steps of thread v that acquire the lot's mutex.
Locks(v) == EnterQueueLock(v) \/ WaitForSpotLock(v) \/ LeaveLock(v)

Fairness ==
    \A v \in Vehicles :
        /\ WF_vars(Runs(v))
        /\ SF_vars(Locks(v))
        /\ SF_vars(WaitForSpotSemWait(v))

FairSpec == Spec /\ Fairness

(***************************************************************************)
(* The vehicle threads from their start: the stop line, the gate poll and  *)
(* the park decision of the four thread functions, which differ in         *)
(* coordinates only, except that a commuter first drives through           *)
(* intersection 11.  Driving changes no shared state and is part of the    *)
(* step it precedes; of the frames written while driving, which all carry  *)
(* the vehicle's active flag, the history keeps the first.                 *)
(***************************************************************************)
\* pthread_create: the thread drives to its first stop line, which for a
\* commuter is the stop line of intersection 11.
GateSpawn(v, r, t) ==
    /\ pc[v] = "idle"
    /\ r \in RoutinesOf(proc)
    /\ t \in SpawnTypes(r)
    /\ routine' = [routine EXCEPT ![v] = r]
    /\ vtype' = [vtype EXCEPT ![v] = t]
    /\ pc' = [pc EXCEPT ![v] = IF r = "commuterThreadFunc" THEN "f11_stop" ELSE "gate_lock"]
    /\ active' = [active EXCEPT ![v] = TRUE]
    /\ tele' = [tele EXCEPT ![v] = Emitted(NoUpdates, active'[v])]
    /\ lastFrame' = [lastFrame EXCEPT ![v] = UpdateFrame(v, active'[v], FALSE)]
    /\ UNCHANGED <<lotVars, queueIdx, spotIndex, eqEffect, proc, lightState,
                   lightMutex, state, gateSeen, ctlCore>>

\* commuterThreadFunc, phases 2 and 3: the pause of 500 ms at the stop line
\* of intersection 11, then the drive through it to the stop line of
\* intersection 10.
PassF11StopLine(v) ==
    /\ pc[v] = "f11_stop"
    /\ pc' = [pc EXCEPT ![v] = "gate_lock"]
    /\ UNCHANGED <<lotVars, queueIdx, spotIndex, eqEffect, gateVars, ctlVars>>

\* pthread_mutex_lock(args->lightMutex)
GateLock(v) ==
    /\ pc[v] = "gate_lock"
    /\ lightMutex = NoThread
    /\ lightMutex' = v
    /\ pc' = [pc EXCEPT ![v] = "gate_read"]
    /\ UNCHANGED <<lotVars, queueIdx, spotIndex, eqEffect, proc, lightState,
                   vtype, routine, state, gateSeen, ctlVars>>

\* Mutant: the poll goes on without pthread_mutex_unlock.
GateRead_KeepsLock(v) ==
    /\ pc[v] = "gate_read"
    /\ lightMutex = v
    /\ state' = [state EXCEPT ![v] = lightState[proc]]
    /\ gateSeen' = [gateSeen EXCEPT ![v] =
                       IF lightState[proc] = "GREEN" THEN @ \cup {proc} ELSE @]
    /\ pc' = [pc EXCEPT ![v] = "gate_test"]
    /\ UNCHANGED <<lotVars, queueIdx, spotIndex, eqEffect, proc, lightState, lightMutex,
                   vtype, routine, ctlVars>>

\* state = *(args->lightState), the gate of the thread's own process, and
\* pthread_mutex_unlock.
GateRead(v) ==
    /\ pc[v] = "gate_read"
    /\ lightMutex = v
    /\ state' = [state EXCEPT ![v] = lightState[proc]]
    /\ gateSeen' = [gateSeen EXCEPT ![v] =
                       IF lightState[proc] = "GREEN" THEN @ \cup {proc} ELSE @]
    /\ lightMutex' = NoThread
    /\ pc' = [pc EXCEPT ![v] = "gate_test"]
    /\ UNCHANGED <<lotVars, queueIdx, spotIndex, eqEffect, proc, lightState,
                   vtype, routine, ctlVars>>

\* Mutant: the test of the polled state is inverted.
MayPass_Inverted(v) == state[v] # "GREEN" \/ vtype[v] \in EmergencyTypes

\* The condition of the break that ends the poll loop.
MayPass(v) == state[v] = "GREEN" \/ vtype[v] \in EmergencyTypes

\* Mutant: the type is not tested.
WillPark_AnyType(v) == TRUE

\* bool willPark: every controller passes its lot, so parkingLot != nullptr.
WillPark(v) == vtype[v] \in ParkingTypes

\* The test of the polled state: the thread sleeps 100 ms and polls again,
\* or leaves the stop line, for the queue entrance and enterQueue if
\* willPark, across the intersection otherwise.
GateTest(v) ==
    /\ pc[v] = "gate_test"
    /\ pc' = [pc EXCEPT ![v] =
                 IF ~MayPass(v) THEN "gate_lock"
                 ELSE IF WillPark(v) THEN "enter" ELSE "cross"]
    /\ UNCHANGED <<lotVars, queueIdx, spotIndex, eqEffect, gateVars, ctlVars>>

\* The end of the thread function, as VehicleExit; the thread slot keeps
\* nothing of the vehicle.
GateVehicleExit(v) ==
    /\ pc[v] \in {"cross", "exit"}
    /\ pc' = [pc EXCEPT ![v] = "idle"]
    /\ queueIdx' = [queueIdx EXCEPT ![v] = -1]
    /\ spotIndex' = [spotIndex EXCEPT ![v] = -1]
    /\ eqEffect' = [eqEffect EXCEPT ![v] = NoEffect]
    /\ vtype' = [vtype EXCEPT ![v] = NoType]
    /\ routine' = [routine EXCEPT ![v] = NoRoutine]
    /\ state' = [state EXCEPT ![v] = NoState]
    /\ gateSeen' = [gateSeen EXCEPT ![v] = {}]
    /\ active' = [active EXCEPT ![v] = FALSE]
    /\ tele' = [tele EXCEPT ![v] = Emitted(Emitted(tele[v], active[v]), active'[v])]
    /\ lastFrame' = [lastFrame EXCEPT ![v] = UpdateFrame(v, active'[v], FALSE)]
    /\ UNCHANGED <<lotVars, proc, lightState, lightMutex, ctlCore>>

(***************************************************************************)
(* A controller's phase loop as the vehicles see it: it writes RED or      *)
(* GREEN to its lightState, always as lock, assignment, unlock, at times   *)
(* that its timers and pipes decide.  The lightMutex of the other process  *)
(* is not part of the model.                                               *)
(***************************************************************************)
ControllerSetsLight(i, s) ==
    /\ i = proc => lightMutex = NoThread
    /\ lightState' = [lightState EXCEPT ![i] = s]
    /\ UNCHANGED <<lotVars, vehVars, proc, lightMutex, vtype, routine, state,
                   gateSeen, ctlVars>>

\* The vehicle threads that the gate specification starts; the other thread
\* slots stay idle.
NumGateVehicles == 2

GateVehicles == 1..NumGateVehicles

GateInit ==
    /\ LotInit
    /\ VehInit(Vehicles)
    /\ proc \in Intersections
    /\ lightState = [i \in Intersections |-> "RED"]
    /\ lightMutex = NoThread
    /\ vtype = [v \in Vehicles |-> NoType]
    /\ routine = [v \in Vehicles |-> NoRoutine]
    /\ state = [v \in Vehicles |-> NoState]
    /\ gateSeen = [v \in Vehicles |-> {}]
    /\ CtlInit

GateNext ==
    \/ \E i \in Intersections, s \in {"RED", "GREEN"} : ControllerSetsLight(i, s)
    \/ \E v \in GateVehicles, r \in Routines, t \in VehicleType :
          GateSpawn(v, r, t)
    \/ \E v \in GateVehicles :
          \/ PassF11StopLine(v)
          \/ GateLock(v)
          \/ GateRead(v)
          \/ GateTest(v)
          \/ EnterQueueTry(v)
          \/ EnterQueueLock(v)
          \/ EnterQueueCount(v)
          \/ EnterQueueScan(v)
          \/ WaitForSpotCall(v)
          \/ WaitForSpotSemWait(v)
          \/ WaitForSpotSemPost(v)
          \/ WaitForSpotLock(v)
          \/ WaitForSpotDequeue(v)
          \/ WaitForSpotScan(v)
          \/ LeaveLock(v)
          \/ LeaveClear(v)
          \/ LeavePost(v)
          \/ GateVehicleExit(v)

GateSpec == GateInit /\ [][GateNext]_vars

(***************************************************************************)
(* Controller F11's phase loop with the coordination pipe from controller  *)
(* F10.  The reads are non-blocking (setNonBlocking); the frames to the    *)
(* visualizer and the command read, which starts vehicle threads only, do  *)
(* not change the gate and are part of the step they follow.  No vehicle   *)
(* thread writes lightState, so the threads are left idle here and lock,   *)
(* assignment and unlock are one step.                                     *)
(***************************************************************************)
\* The frames that the coordination pipe holds at most.
MaxFrames == 5

\* for (int i = 0; i < 6; ++i) of the RED and of the GREEN phase.
PhaseTicks == 6

EmergencyFrame == [type |-> "EMERGENCY_APPROACHING", sourceIntersection |-> 10]

\* What a step of controller F11 leaves alone.
ctlFrame == <<lotVars, vehVars, proc, lightMutex, vtype, routine, state, gateSeen,
              f10Vars, wireVars, teleVars, cmdWireVars, switchVars>>

\* Controller F10 on a GREEN_WAVE command: write(writeCoordFd, &coordMsg).
F10WritesEmergency ==
    /\ Len(coordPipe) < MaxFrames
    /\ coordPipe' = Append(coordPipe, EmergencyFrame)
    /\ UNCHANGED <<ctlFrame, lightState, lastLight, ctlPc, tick, emergencyMode>>

\* The read at the top of the loop: on an EMERGENCY_APPROACHING frame
\* emergencyMode = true, the gate is set GREEN and sleep(5) starts.
CtlTopRead ==
    /\ ctlPc = "top"
    /\ IF coordPipe # <<>>
       THEN /\ coordPipe' = Tail(coordPipe)
            /\ IF Head(coordPipe).type = "EMERGENCY_APPROACHING"
               THEN /\ emergencyMode' = TRUE
                    /\ lightState' = [lightState EXCEPT ![11] = "GREEN"]
                    /\ lastLight' = [lastLight EXCEPT ![11] = LightUpdate(11, "GREEN")]
                    /\ ctlPc' = "hold_top"
               ELSE /\ ctlPc' = "cmd"
                    /\ UNCHANGED <<emergencyMode, lightState, lastLight>>
       ELSE /\ ctlPc' = "cmd"
            /\ UNCHANGED <<coordPipe, emergencyMode, lightState, lastLight>>
    /\ UNCHANGED <<ctlFrame, tick>>

\* sleep(5) returns; emergencyMode = false.
CtlTopHoldEnds ==
    /\ ctlPc = "hold_top"
    /\ emergencyMode' = FALSE
    /\ ctlPc' = "cmd"
    /\ UNCHANGED <<ctlFrame, lightState, lastLight, tick, coordPipe>>

\* The command read and the test if (!emergencyMode).
CtlCommand ==
    /\ ctlPc = "cmd"
    /\ ctlPc' = IF emergencyMode THEN "top" ELSE "red"
    /\ UNCHANGED <<ctlFrame, lightState, lastLight, tick, coordPipe, emergencyMode>>

\* The RED phase starts.
CtlRed ==
    /\ ctlPc = "red"
    /\ lightState' = [lightState EXCEPT ![11] = "RED"]
    /\ lastLight' = [lastLight EXCEPT ![11] = LightUpdate(11, "RED")]
    /\ tick' = 0
    /\ ctlPc' = "red_tick"
    /\ UNCHANGED <<ctlFrame, coordPipe, emergencyMode>>

\* Mutant: the emergency during RED starts the hold without the write.
CtlRedTick_NoGreen ==
    /\ ctlPc = "red_tick"
    /\ IF coordPipe # <<>>
       THEN /\ coordPipe' = Tail(coordPipe)
            /\ IF Head(coordPipe).type = "EMERGENCY_APPROACHING"
               THEN /\ ctlPc' = "hold_tick"
                    /\ UNCHANGED <<tick, lightState, lastLight>>
               ELSE /\ tick' = tick + 1
                    /\ ctlPc' = IF tick + 1 = PhaseTicks THEN "green" ELSE "red_tick"
                    /\ UNCHANGED <<lightState, lastLight>>
       ELSE /\ tick' = tick + 1
            /\ ctlPc' = IF tick + 1 = PhaseTicks THEN "green" ELSE "red_tick"
            /\ UNCHANGED <<coordPipe, lightState, lastLight>>
    /\ UNCHANGED <<ctlFrame, emergencyMode>>

\* One pass of the RED phase's loop: usleep(500000) and the read; on an
\* EMERGENCY_APPROACHING frame the gate is set GREEN and sleep(5) starts,
\* otherwise the loop goes on, or ends after its last pass.
CtlRedTick ==
    /\ ctlPc = "red_tick"
    /\ IF coordPipe # <<>>
       THEN /\ coordPipe' = Tail(coordPipe)
            /\ IF Head(coordPipe).type = "EMERGENCY_APPROACHING"
               THEN /\ lightState' = [lightState EXCEPT ![11] = "GREEN"]
                    /\ lastLight' = [lastLight EXCEPT ![11] = LightUpdate(11, "GREEN")]
                    /\ ctlPc' = "hold_tick"
                    /\ UNCHANGED tick
               ELSE /\ tick' = tick + 1
                    /\ ctlPc' = IF tick + 1 = PhaseTicks THEN "green" ELSE "red_tick"
                    /\ UNCHANGED <<lightState, lastLight>>
       ELSE /\ tick' = tick + 1
            /\ ctlPc' = IF tick + 1 = PhaseTicks THEN "green" ELSE "red_tick"
            /\ UNCHANGED <<coordPipe, lightState, lastLight>>
    /\ UNCHANGED <<ctlFrame, emergencyMode>>

\* sleep(5) returns; break.
CtlTickHoldEnds ==
    /\ ctlPc = "hold_tick"
    /\ ctlPc' = "green"
    /\ UNCHANGED <<ctlFrame, lightState, lastLight, tick, coordPipe, emergencyMode>>

\* The GREEN phase starts.
CtlGreen ==
    /\ ctlPc = "green"
    /\ lightState' = [lightState EXCEPT ![11] = "GREEN"]
    /\ lastLight' = [lastLight EXCEPT ![11] = LightUpdate(11, "GREEN")]
    /\ tick' = 0
    /\ ctlPc' = "green_tick"
    /\ UNCHANGED <<ctlFrame, coordPipe, emergencyMode>>

\* One pass of the GREEN phase's loop: usleep(500000), no read; after the
\* last pass the loop of the controller starts again.
CtlGreenTick ==
    /\ ctlPc = "green_tick"
    /\ tick' = IF tick + 1 = PhaseTicks THEN 0 ELSE tick + 1
    /\ ctlPc' = IF tick + 1 = PhaseTicks THEN "top" ELSE "green_tick"
    /\ UNCHANGED <<ctlFrame, lightState, lastLight, coordPipe, emergencyMode>>

\* The steps of controller F11's thread.
CtlStep ==
    \/ CtlTopRead
    \/ CtlTopHoldEnds
    \/ CtlCommand
    \/ CtlRed
    \/ CtlRedTick
    \/ CtlTickHoldEnds
    \/ CtlGreen
    \/ CtlGreenTick

CtlSpecInit ==
    /\ LotInit
    /\ VehInit(Vehicles)
    /\ proc = 11
    /\ lightState = [i \in Intersections |-> "RED"]
    /\ lightMutex = NoThread
    /\ vtype = [v \in Vehicles |-> NoType]
    /\ routine = [v \in Vehicles |-> NoRoutine]
    /\ state = [v \in Vehicles |-> NoState]
    /\ gateSeen = [v \in Vehicles |-> {}]
    /\ CtlInit

\* The steps of controller F11's thread where time is not counted.
CtlUntimedStep ==
    \/ CtlTopRead /\ UNCHANGED timeVars
    \/ CtlTopHoldEnds /\ UNCHANGED timeVars
    \/ CtlCommand /\ UNCHANGED timeVars
    \/ CtlRed /\ UNCHANGED timeVars
    \/ CtlRedTick /\ UNCHANGED timeVars
    \/ CtlTickHoldEnds /\ UNCHANGED timeVars
    \/ CtlGreen /\ UNCHANGED timeVars
    \/ CtlGreenTick /\ UNCHANGED timeVars

CtlNext ==
    \/ F10WritesEmergency /\ UNCHANGED timeVars
    \/ CtlUntimedStep

CtlSpec == CtlSpecInit /\ [][CtlNext]_vars

\* The controller's thread keeps running: its sleeps end and its reads do
\* not block.
CtlFairSpec == CtlSpec /\ WF_vars(CtlUntimedStep)

(***************************************************************************)
(* Controller F11's loop with time, counted in slices of 500 ms.  A step   *)
(* of the controller takes no time and starts the sleep that the code has  *)
(* after it; time passes only while the controller sleeps.  Sleeps that    *)
(* are no whole number of slices are counted with the slices they fill.    *)
(***************************************************************************)
\* sleep(5)
HoldSlices == 10

\* The PARKING_FULL burst: 16 times usleep(200000), 3.2 s.
ParkingFullSlices == 6

\* The GRIDLOCK burst of controller F11: 8 times usleep(100000), 0.8 s.
GridlockSlices == 1

\* The sleeps of the command read: none without a command and for
\* GREEN_WAVE, which controller F11 ignores, or one of the bursts.
BurstSlices == {0, GridlockSlices, ParkingFullSlices}

\* The ages are counted up to here.
MaxAge == 12

\* The sleep at the controller's new position: sleep(5) of a hold, or the
\* usleep(500000) that starts a pass of a phase's loop.
NapBefore(p) ==
    IF p \in {"hold_top", "hold_tick"} THEN HoldSlices
    ELSE IF p \in {"red_tick", "green_tick"} THEN 1
    ELSE 0

\* A step of the controller is taken when its sleep is over.
Awake == nap = 0

\* What a step of the controller does to the time: the next sleep starts,
\* and a frame that the step has read leaves the pipe together with its age.
TimeAfter ==
    /\ nap' = NapBefore(ctlPc')
    /\ age' = IF Len(coordPipe') < Len(coordPipe) THEN Tail(age) ELSE age

\* One slice of the controller's sleep passes.
Slice ==
    /\ nap > 0
    /\ nap' = nap - 1
    /\ age' = [k \in DOMAIN age |-> IF age[k] < MaxAge THEN age[k] + 1 ELSE MaxAge]
    /\ UNCHANGED <<ctlFrame, lightState, lastLight, ctlPc, tick, coordPipe, emergencyMode>>

\* A frame of controller F10 arrives.
TimedArrival ==
    /\ F10WritesEmergency
    /\ age' = Append(age, 0)
    /\ UNCHANGED nap

TimedCtlTopRead == Awake /\ CtlTopRead /\ TimeAfter

TimedCtlTopHoldEnds == Awake /\ CtlTopHoldEnds /\ TimeAfter

\* The command read with the burst of the command it finds.
TimedCtlCommand ==
    \E d \in BurstSlices :
        /\ Awake
        /\ CtlCommand
        /\ nap' = d
        /\ UNCHANGED age

TimedCtlRed == Awake /\ CtlRed /\ TimeAfter

TimedCtlRedTick == Awake /\ CtlRedTick /\ TimeAfter

TimedCtlTickHoldEnds == Awake /\ CtlTickHoldEnds /\ TimeAfter

TimedCtlGreen == Awake /\ CtlGreen /\ TimeAfter

TimedCtlGreenTick == Awake /\ CtlGreenTick /\ TimeAfter

TimedCtlNext ==
    \/ Slice
    \/ TimedArrival
    \/ TimedCtlTopRead
    \/ TimedCtlTopHoldEnds
    \/ TimedCtlCommand
    \/ TimedCtlRed
    \/ TimedCtlRedTick
    \/ TimedCtlTickHoldEnds
    \/ TimedCtlGreen
    \/ TimedCtlGreenTick

TimedCtlSpec == CtlSpecInit /\ [][TimedCtlNext]_vars

(***************************************************************************)
(* Controller F10's phase loop (trafficControllerF10) with the visualizer  *)
(* that writes its commands and reads its telemetry.  The threads that a   *)
(* command starts are counted, not run; every write to the telemetry pipe  *)
(* is a step of its own, which waits while the pipe is full (the write end *)
(* is a blocking descriptor).  Controller F11 appears as the reader of the *)
(* coordination pipe.                                                      *)
(***************************************************************************)
\* The button clicks that the visualizer makes at most.
MaxClicks == 3

\* The frames that the telemetry pipe holds.
PipeFrames == 2

\* for (int i = 0; i < 16; ++i) spawnLocalVehicle(CAR)
ParkingFullCars == 16

\* for (int i = 0; i < 5; ++i) of the GRIDLOCK command, for the local
\* vehicles as for the commuters.
GridlockVehicles == 5

Commands == {"GREEN_WAVE", "PARKING_FULL", "GRIDLOCK"}

\* What a read of the empty command pipe gives.
NoCommand == "NONE"

\* The calls of spawnLocalVehicle that a command makes.
LocalsOf(c) ==
    CASE c = "GREEN_WAVE" -> 1
      [] c = "PARKING_FULL" -> ParkingFullCars
      [] c = "GRIDLOCK" -> GridlockVehicles
      [] OTHER -> 0

\* The calls of spawnCommuterVehicle that a command makes.
CommutersOf(c) == IF c = "GRIDLOCK" THEN GridlockVehicles ELSE 0

\* What a step of controller F10 or of the visualizer leaves alone.
f10Frame == <<lotVars, vehVars, proc, lightMutex, vtype, routine, state, gateSeen,
              ctlPc, tick, emergencyMode, timeVars, wireVars, teleVars, cmdWireVars,
              switchVars>>

\* Mutant: GREEN_WAVE starts the ambulance and writes no frame.
Applied_NoFrame(c) ==
    /\ vehicleIdCounter' = vehicleIdCounter + LocalsOf(c)
    /\ commuterIdCounter' = commuterIdCounter + CommutersOf(c)
    /\ issued' = issued
                    \cup (vehicleIdCounter..(vehicleIdCounter + LocalsOf(c) - 1))
                    \cup (commuterIdCounter..(commuterIdCounter + CommutersOf(c) - 1))
    /\ started' = [local |-> LocalsOf(c), commuter |-> CommutersOf(c),
                   ambulance |-> IF c = "GREEN_WAVE" THEN 1 ELSE 0]
    /\ UNCHANGED coordPipe

\* The branches of the command switch: every spawn takes the next id of its
\* counter; GREEN_WAVE starts one AMBULANCE and writes one
\* EMERGENCY_APPROACHING frame; PARKING_FULL starts 16 CARs; GRIDLOCK
\* starts 5 local vehicles (rand() % 4 + 2: BUS to TRACTOR) and 5 commuters.
Applied(c) ==
    /\ vehicleIdCounter' = vehicleIdCounter + LocalsOf(c)
    /\ commuterIdCounter' = commuterIdCounter + CommutersOf(c)
    /\ issued' = issued
                    \cup (vehicleIdCounter..(vehicleIdCounter + LocalsOf(c) - 1))
                    \cup (commuterIdCounter..(commuterIdCounter + CommutersOf(c) - 1))
    /\ started' = [local |-> LocalsOf(c), commuter |-> CommutersOf(c),
                   ambulance |-> IF c = "GREEN_WAVE" THEN 1 ELSE 0]
    /\ coordPipe' = IF c = "GREEN_WAVE"
                    THEN Append(coordPipe, EmergencyFrame)
                    ELSE coordPipe

\* Mutant: the read takes the newest frame of the pipe.
ReadCommand_NewestFirst ==
    IF cmdPipe = <<>>
    THEN /\ UNCHANGED cmdPipe
         /\ Applied(NoCommand)
    ELSE /\ cmdPipe' = SubSeq(cmdPipe, 1, Len(cmdPipe) - 1)
         /\ Applied(cmdPipe[Len(cmdPipe)])

\* if (read(cmdPipeFd, &cmdMsg, sizeof(cmdMsg)) == sizeof(cmdMsg) && ...):
\* one frame is read, if there is one, and its command applied.
ReadCommand ==
    IF cmdPipe = <<>>
    THEN /\ UNCHANGED cmdPipe
         /\ Applied(NoCommand)
    ELSE /\ cmdPipe' = Tail(cmdPipe)
         /\ Applied(Head(cmdPipe))

\* The top of the loop: the command read.
F10Top ==
    /\ f10Pc = "top"
    /\ ReadCommand
    /\ f10Pc' = "red"
    /\ UNCHANGED <<f10Frame, lightState, f10Tick, clicks, telemetry, visOpen, lastLight>>

\* The RED phase starts: lock, lightState = RED, unlock.
F10Red ==
    /\ f10Pc = "red"
    /\ lightMutex = NoThread
    /\ lightState' = [lightState EXCEPT ![10] = "RED"]
    /\ f10Pc' = "red_pub"
    /\ UNCHANGED <<f10Frame, coordPipe, f10Tick, cmdPipe, clicks, vehicleIdCounter,
                   commuterIdCounter, started, issued, telemetry, visOpen, lastLight>>

\* write(writePipeFd, &msg, sizeof(msg)) of the LIGHT_UPDATE frame for RED.
F10PublishRed ==
    /\ f10Pc = "red_pub"
    /\ Len(telemetry) < PipeFrames
    /\ telemetry' = Append(telemetry, LightUpdate(10, "RED"))
    /\ lastLight' = [lastLight EXCEPT ![10] = LightUpdate(10, "RED")]
    /\ f10Tick' = 0
    /\ f10Pc' = "red_tick"
    /\ UNCHANGED <<f10Frame, lightState, coordPipe, cmdPipe, clicks, vehicleIdCounter,
                   commuterIdCounter, started, issued, visOpen>>

\* Mutant: a command that is read ends the RED phase.
F10RedTick_CommandEndsPhase ==
    /\ f10Pc = "red_tick"
    /\ ReadCommand
    /\ f10Tick' = f10Tick + 1
    /\ f10Pc' = IF f10Tick + 1 = PhaseTicks \/ cmdPipe # <<>> THEN "green" ELSE "red_tick"
    /\ UNCHANGED <<f10Frame, lightState, clicks, telemetry, visOpen, lastLight>>

\* One pass of the RED phase's loop: usleep(500000) and the command read.
F10RedTick ==
    /\ f10Pc = "red_tick"
    /\ ReadCommand
    /\ f10Tick' = f10Tick + 1
    /\ f10Pc' = IF f10Tick + 1 = PhaseTicks THEN "green" ELSE "red_tick"
    /\ UNCHANGED <<f10Frame, lightState, clicks, telemetry, visOpen, lastLight>>

\* The GREEN phase starts: lock, lightState = GREEN, unlock.
F10Green ==
    /\ f10Pc = "green"
    /\ lightMutex = NoThread
    /\ lightState' = [lightState EXCEPT ![10] = "GREEN"]
    /\ f10Pc' = "green_pub"
    /\ UNCHANGED <<f10Frame, coordPipe, f10Tick, cmdPipe, clicks, vehicleIdCounter,
                   commuterIdCounter, started, issued, telemetry, visOpen, lastLight>>

\* Mutant: the frame for GREEN still carries RED.
F10PublishGreen_StaleState ==
    /\ f10Pc = "green_pub"
    /\ Len(telemetry) < PipeFrames
    /\ telemetry' = Append(telemetry, LightUpdate(10, "RED"))
    /\ lastLight' = [lastLight EXCEPT ![10] = LightUpdate(10, "RED")]
    /\ f10Tick' = 0
    /\ f10Pc' = "green_tick"
    /\ UNCHANGED <<f10Frame, lightState, coordPipe, cmdPipe, clicks, vehicleIdCounter,
                   commuterIdCounter, started, issued, visOpen>>

\* msg.data.light.state = GREEN and the write of the frame.
F10PublishGreen ==
    /\ f10Pc = "green_pub"
    /\ Len(telemetry) < PipeFrames
    /\ telemetry' = Append(telemetry, LightUpdate(10, "GREEN"))
    /\ lastLight' = [lastLight EXCEPT ![10] = LightUpdate(10, "GREEN")]
    /\ f10Tick' = 0
    /\ f10Pc' = "green_tick"
    /\ UNCHANGED <<f10Frame, lightState, coordPipe, cmdPipe, clicks, vehicleIdCounter,
                   commuterIdCounter, started, issued, visOpen>>

\* One pass of the GREEN phase's loop: usleep(500000) and nothing else.
F10GreenTick ==
    /\ f10Pc = "green_tick"
    /\ f10Tick' = f10Tick + 1
    /\ f10Pc' = IF f10Tick + 1 = PhaseTicks THEN "park_pub" ELSE "green_tick"
    /\ UNCHANGED <<f10Frame, lightState, coordPipe, cmdPipe, clicks, vehicleIdCounter,
                   commuterIdCounter, started, issued, telemetry, visOpen, lastLight>>

\* The PARKING_UPDATE frame at the end of the GREEN phase, with
\* parkingLot.getWaitingCount(); the loop starts again.
F10PublishParking ==
    /\ f10Pc = "park_pub"
    /\ Len(telemetry) < PipeFrames
    /\ telemetry' = Append(telemetry, ParkingUpdate(10, waitingCount))
    /\ f10Tick' = 0
    /\ f10Pc' = "top"
    /\ UNCHANGED <<f10Frame, lightState, coordPipe, cmdPipe, clicks, vehicleIdCounter,
                   commuterIdCounter, started, issued, visOpen, lastLight>>

\* A click on a scenario button: the visualizer writes the command to
\* controller F10 (all three buttons have sendToF10).
VisualizerClick(c) ==
    /\ visOpen
    /\ clicks < MaxClicks
    /\ clicks' = clicks + 1
    /\ cmdPipe' = Append(cmdPipe, c)
    /\ UNCHANGED <<f10Frame, lightState, coordPipe, f10Pc, f10Tick, vehicleIdCounter,
                   commuterIdCounter, started, issued, telemetry, visOpen, lastLight>>

\* while ((bytesRead = read(pipeF10, &msg, sizeof(msg))) > 0): the
\* visualizer reads all the frames there are.
VisualizerReads ==
    /\ visOpen
    /\ telemetry # <<>>
    /\ telemetry' = <<>>
    /\ UNCHANGED <<f10Frame, lightState, coordPipe, f10Pc, f10Tick, cmdPipe, clicks,
                   vehicleIdCounter, commuterIdCounter, started, issued, visOpen,
                   lastLight>>

\* window.close(): the loop of the visualizer ends and main waits for the
\* controllers, its ends of the pipes still open.
VisualizerCloses ==
    /\ visOpen
    /\ visOpen' = FALSE
    /\ UNCHANGED <<f10Frame, lightState, coordPipe, f10Pc, f10Tick, cmdPipe, clicks,
                   vehicleIdCounter, commuterIdCounter, started, issued, telemetry,
                   lastLight>>

\* Controller F11 reads a frame from the coordination pipe.
F11ReadsFrame ==
    /\ coordPipe # <<>>
    /\ coordPipe' = Tail(coordPipe)
    /\ UNCHANGED <<f10Frame, lightState, f10Vars, lastLight>>

\* The steps of controller F10's thread.
F10Step ==
    \/ F10Top
    \/ F10Red
    \/ F10PublishRed
    \/ F10RedTick
    \/ F10Green
    \/ F10PublishGreen
    \/ F10GreenTick
    \/ F10PublishParking

F10SpecInit ==
    /\ LotInit
    /\ VehInit(Vehicles)
    /\ proc = 10
    /\ lightState = [i \in Intersections |-> "RED"]
    /\ lightMutex = NoThread
    /\ vtype = [v \in Vehicles |-> NoType]
    /\ routine = [v \in Vehicles |-> NoRoutine]
    /\ state = [v \in Vehicles |-> NoState]
    /\ gateSeen = [v \in Vehicles |-> {}]
    /\ CtlInit

F10Next ==
    \/ F10Step
    \/ \E c \in Commands : VisualizerClick(c)
    \/ VisualizerReads
    \/ VisualizerCloses
    \/ F11ReadsFrame

F10Spec == F10SpecInit /\ [][F10Next]_vars

\* The controller's thread keeps running and the visualizer, while its
\* window is open, keeps reading the telemetry pipe.
F10FairSpec == F10Spec /\ WF_vars(F10Step) /\ WF_vars(VisualizerReads)

(***************************************************************************)
(* The two controllers together: the coordination pipe has controller F10  *)
(* as its writer and controller F11 as its reader.                         *)
(***************************************************************************)
ControllersNext ==
    \/ F10Step
    \/ \E c \in Commands : VisualizerClick(c)
    \/ VisualizerReads
    \/ VisualizerCloses
    \/ CtlUntimedStep

ControllersSpec == F10SpecInit /\ [][ControllersNext]_vars

\* Scheduling: each controller's thread runs when it can, and the
\* visualizer, while its window is open, reads the telemetry pipe in every
\* pass of its loop.
ControllersFairSpec ==
    /\ ControllersSpec
    /\ WF_vars(F10Step)
    /\ WF_vars(CtlUntimedStep)
    /\ WF_vars(VisualizerReads)

(***************************************************************************)
(* PipeMessage on the wire.  A frame is sizeof(PipeMessage) words: magic,  *)
(* type and the union, which is as long as its longest member,             *)
(* VehicleState.  A bool travels as 0 or 1 and an enum as its ordinal.     *)
(***************************************************************************)
MaxSent == 4

\* 0xCAFEBABE and 0xDEADBEEF as 32-bit words.
MSG_MAGIC == -889275714
CMD_MAGIC == -559038737

\* enum Type { VEHICLE_UPDATE, LIGHT_UPDATE, PARKING_UPDATE }
PipeMessageType == <<"VEHICLE_UPDATE", "LIGHT_UPDATE", "PARKING_UPDATE">>

\* enum class VehicleType, in the order of its declaration.
VehicleTypeOrder == <<"AMBULANCE", "FIRETRUCK", "BUS", "CAR", "BIKE", "TRACTOR">>

\* enum class TrafficLightState
TrafficLightStateOrder == <<"RED", "GREEN">>

EnumToInt(e, x) == CHOOSE k \in 0..(Len(e) - 1) : e[k + 1] = x
IntToEnum(e, k) == e[k + 1]
BoolToInt(b) == IF b THEN 1 ELSE 0
\* Mutant: a bool is read with the opposite sense.
IntToBool_Inverted(k) == k = 0

IntToBool(k) == k # 0

\* struct VehicleState: its members in the order of their declaration.
VehicleFields == <<"id", "x", "y", "colorR", "colorG", "colorB", "isActive", "isParked",
                   "isInQueue", "queueIndex", "isLeftParking", "type">>

BoolFields == {"isActive", "isParked", "isInQueue", "isLeftParking"}

\* A member of VehicleState as the word in the frame.
ToWord(f, x) ==
    IF f \in BoolFields THEN BoolToInt(x)
    ELSE IF f = "type" THEN EnumToInt(VehicleTypeOrder, x)
    ELSE x

\* A word of the frame as the member of VehicleState.
FromWord(f, w) ==
    IF f \in BoolFields THEN IntToBool(w)
    ELSE IF f = "type" THEN IntToEnum(VehicleTypeOrder, w)
    ELSE w

\* sizeof(PipeMessage), in words.
FrameWords == 2 + Len(VehicleFields)

\* Vehicle::getColor
getColor(type) ==
    CASE type = "AMBULANCE" -> <<255, 255, 255>>
      [] type = "FIRETRUCK" -> <<255, 0, 0>>
      [] type = "BUS" -> <<0, 0, 255>>
      [] type = "CAR" -> <<0, 255, 0>>
      [] type = "BIKE" -> <<255, 255, 0>>
      [] type = "TRACTOR" -> <<100, 100, 100>>

\* The members that Vehicle::sendUpdate(parked) puts into the frame.
VehicleStateOf(id, x, y, isActive, parked, isInQueue, queueIndex, isLeftParking, type) ==
    [id |-> id, x |-> x, y |-> y,
     colorR |-> getColor(type)[1], colorG |-> getColor(type)[2],
     colorB |-> getColor(type)[3],
     isActive |-> isActive, isParked |-> parked, isInQueue |-> isInQueue,
     queueIndex |-> queueIndex, isLeftParking |-> isLeftParking, type |-> type]

\* The vehicles whose updates are written: one driving, one waiting in the
\* queue of the left lot, one parked, one at the end of its route.
SampleStates ==
    { VehicleStateOf(0, 1200, 360, TRUE, FALSE, FALSE, -1, FALSE, "AMBULANCE"),
      VehicleStateOf(1, 700, 150, TRUE, FALSE, TRUE, 0, TRUE, "CAR"),
      VehicleStateOf(50, 640, 100, TRUE, TRUE, FALSE, -1, FALSE, "BIKE"),
      VehicleStateOf(1, 0, 360, FALSE, FALSE, FALSE, -1, TRUE, "CAR") }

\* What the bytes of a frame's union hold beyond the member that was set:
\* the PipeMessage is a local variable that is never cleared.
Garbage == {0, MSG_MAGIC}

\* The words of a frame: the union's member, then what the stack held.
Frame(magic, type, member, g) ==
    <<magic, EnumToInt(PipeMessageType, type)>>
        \o member \o [k \in 1..(Len(VehicleFields) - Len(member)) |-> g]

VehicleFrame(magic, s) ==
    Frame(magic, "VEHICLE_UPDATE",
          [k \in 1..Len(VehicleFields) |-> ToWord(VehicleFields[k], s[VehicleFields[k]])], 0)

LightFrame(i, st, g) ==
    Frame(MSG_MAGIC, "LIGHT_UPDATE", <<i, EnumToInt(TrafficLightStateOrder, st)>>, g)

ParkingFrame(i, n, g) == Frame(MSG_MAGIC, "PARKING_UPDATE", <<i, n>>, g)

\* msg.data.vehicle of a frame that was read.
DecodeVehicle(cells) ==
    [f \in {VehicleFields[k] : k \in 1..Len(VehicleFields)} |->
        FromWord(f, cells[2 + CHOOSE k \in 1..Len(VehicleFields) : VehicleFields[k] = f])]

wireFrame == <<lotVars, vehVars, gateVars, ctlPc, tick, coordPipe, emergencyMode,
               timeVars, f10Vars, lastLight, teleVars, cmdWireVars, switchVars>>

\* Vehicle::sendUpdate: the VEHICLE_UPDATE frame, then the PARKING_UPDATE
\* frame of the vehicle's lot with the lot's waiting count.
SendUpdate(s, n, g) ==
    /\ Len(sent) + 2 <= MaxSent
    /\ wire' = wire \o VehicleFrame(MSG_MAGIC, s)
                    \o ParkingFrame(IF s.isLeftParking THEN 11 ELSE 10, n, g)
    /\ sent' = sent \o << [kind |-> "vehicle", state |-> s],
                          [kind |-> "other", state |-> NoVehicle] >>
    /\ UNCHANGED <<wireFrame, accepted, vis>>

\* A controller writes a LIGHT_UPDATE frame.
SendLightUpdate(i, st, g) ==
    /\ Len(sent) < MaxSent
    /\ wire' = wire \o LightFrame(i, st, g)
    /\ sent' = Append(sent, [kind |-> "other", state |-> NoVehicle])
    /\ UNCHANGED <<wireFrame, accepted, vis>>

\* A VEHICLE_UPDATE frame of the exact length arrives with another magic.
SendCorrupted(s, magic) ==
    /\ Len(sent) < MaxSent
    /\ wire' = wire \o VehicleFrame(magic, s)
    /\ sent' = Append(sent, [kind |-> "corrupted", state |-> s])
    /\ UNCHANGED <<wireFrame, accepted, vis>>

\* bytesRead == sizeof(msg) && msg.magic == MSG_MAGIC
Accepts(cells) == Len(cells) = FrameWords /\ cells[1] = MSG_MAGIC

\* One pass of while ((bytesRead = read(pipeF10, &msg, sizeof(msg))) > 0).
VisualizerReadsFrame ==
    /\ wire # <<>>
    /\ LET n == IF Len(wire) < FrameWords THEN Len(wire) ELSE FrameWords
           cells == SubSeq(wire, 1, n)
           type == IF Accepts(cells) /\ cells[2] \in 0..(Len(PipeMessageType) - 1)
                   THEN IntToEnum(PipeMessageType, cells[2])
                   ELSE "NONE"
       IN  /\ wire' = SubSeq(wire, n + 1, Len(wire))
           /\ IF type = "VEHICLE_UPDATE"
              THEN /\ vis' = [vis EXCEPT !.vehicles =
                                [i \in DOMAIN vis.vehicles \cup {DecodeVehicle(cells).id} |->
                                    IF i = DecodeVehicle(cells).id
                                    THEN DecodeVehicle(cells)
                                    ELSE vis.vehicles[i]]]
                   /\ accepted' = Append(accepted, DecodeVehicle(cells))
              ELSE IF type = "LIGHT_UPDATE"
              THEN /\ vis' = [vis EXCEPT !.lightF10 =
                                IntToEnum(TrafficLightStateOrder, cells[4])]
                   /\ UNCHANGED accepted
              ELSE IF type = "PARKING_UPDATE" /\ cells[3] = 10
              THEN /\ vis' = [vis EXCEPT !.parkingQueueCountF10 = cells[4]]
                   /\ UNCHANGED accepted
              ELSE UNCHANGED <<vis, accepted>>
    /\ UNCHANGED <<wireFrame, sent>>

WireNext ==
    \/ \E s \in SampleStates, n \in 0..PARKING_QUEUE_SIZE, g \in Garbage : SendUpdate(s, n, g)
    \/ \E i \in Intersections, st \in {"RED", "GREEN"}, g \in Garbage : SendLightUpdate(i, st, g)
    \/ \E s \in SampleStates, magic \in {0, CMD_MAGIC} : SendCorrupted(s, magic)
    \/ VisualizerReadsFrame

WireSpec == F10SpecInit /\ [][WireNext]_vars

(***************************************************************************)
(* CommandMessage on the wire: magic and command, the command as the       *)
(* ordinal of enum class ScenarioCommand.                                  *)
(***************************************************************************)
MaxCmdSent == 3

\* enum class ScenarioCommand { NONE = 0, GREEN_WAVE = 1, PARKING_FULL = 2,
\* GRIDLOCK = 3 }
ScenarioCommandOrder == <<NoCommand, "GREEN_WAVE", "PARKING_FULL", "GRIDLOCK">>

CommandFrame(magic, c) == <<magic, EnumToInt(ScenarioCommandOrder, c)>>

\* sizeof(CommandMessage), in words.
CommandWords == Len(CommandFrame(CMD_MAGIC, NoCommand))

\* What a write to the command pipe and a read of it leave alone, beyond
\* what the branch of the switch sets.
cmdFrame == <<lotVars, vehVars, gateVars, ctlPc, tick, emergencyMode, timeVars, wireVars,
              teleVars, f10Pc, f10Tick, cmdPipe, clicks, telemetry, visOpen, lastLight,
              switchVars>>

\* A click: cmdMsg.magic = CMD_MAGIC, cmdMsg.command = btn.command, write.
WriteCommand(c) ==
    /\ Len(cmdSent) < MaxCmdSent
    /\ cmdWire' = cmdWire \o CommandFrame(CMD_MAGIC, c)
    /\ cmdSent' = Append(cmdSent, [valid |-> TRUE, command |-> c])
    /\ UNCHANGED <<cmdFrame, cmdApplied, coordPipe, vehicleIdCounter, commuterIdCounter,
                   started, issued>>

\* A frame of the exact length arrives with another magic.
WriteCorruptedCommand(c, magic) ==
    /\ Len(cmdSent) < MaxCmdSent
    /\ cmdWire' = cmdWire \o CommandFrame(magic, c)
    /\ cmdSent' = Append(cmdSent, [valid |-> FALSE, command |-> c])
    /\ UNCHANGED <<cmdFrame, cmdApplied, coordPipe, vehicleIdCounter, commuterIdCounter,
                   started, issued>>

\* Mutant: the magic is not looked at.
Trusted_Unchecked(cells) == Len(cells) = CommandWords

\* read(...) == sizeof(cmdMsg) && cmdMsg.magic == CMD_MAGIC
Trusted(cells) == Len(cells) = CommandWords /\ cells[1] = CMD_MAGIC

\* One command read of controller F10, at the top of its loop or in a pass
\* of its RED loop, and the switch on cmdMsg.command.
F10PollsCommand ==
    LET n == IF Len(cmdWire) < CommandWords THEN Len(cmdWire) ELSE CommandWords
        cells == SubSeq(cmdWire, 1, n)
        c == IF Trusted(cells) /\ cells[2] \in 1..(Len(ScenarioCommandOrder) - 1)
             THEN IntToEnum(ScenarioCommandOrder, cells[2])
             ELSE NoCommand
    IN  /\ cmdWire' = SubSeq(cmdWire, n + 1, Len(cmdWire))
        /\ Applied(c)
        /\ cmdApplied' = IF c = NoCommand THEN cmdApplied ELSE Append(cmdApplied, c)
        /\ UNCHANGED <<cmdFrame, cmdSent>>

CmdWireNext ==
    \/ \E c \in Commands : WriteCommand(c)
    \/ \E c \in Commands, magic \in {0, MSG_MAGIC} : WriteCorruptedCommand(c, magic)
    \/ F10PollsCommand

CmdWireSpec == F10SpecInit /\ [][CmdWireNext]_vars

(***************************************************************************)
(* The two copies of the command switch of controller F10, each as the     *)
(* source writes it, on the counters, the coordination pipe and the list   *)
(* of the vehicles started.                                                *)
(***************************************************************************)
\* The results of rand() that a GRIDLOCK branch draws for one kind of
\* vehicle, and the values that matter to rand() % 4 and to rand() % 2.
LocalDraws == [1..GridlockVehicles -> 0..3]
CommuterDraws == [1..GridlockVehicles -> 0..1]

\* The controller's state that a branch works on.
SwitchState == [vid |-> vehicleIdCounter, cid |-> commuterIdCounter,
                frames |-> coordPipe, log |-> <<>>]

\* new Vehicle(vehicleIdCounter++, type, ...), thread vehicleThreadFunc
spawnLocalVehicle(w, type) ==
    [w EXCEPT !.log = Append(@, [route |-> "local", type |-> type, id |-> w.vid]),
              !.vid = @ + 1]

\* new Vehicle(commuterIdCounter++, type, ...), thread commuterThreadFunc
spawnCommuterVehicle(w, type) ==
    [w EXCEPT !.log = Append(@, [route |-> "commuter", type |-> type, id |-> w.cid]),
              !.cid = @ + 1]

\* write(writeCoordFd, &coordMsg, sizeof(coordMsg))
WriteCoord(w) == [w EXCEPT !.frames = Append(@, EmergencyFrame)]

\* (VehicleType)(rand() % 4 + 2)
GridlockLocalType(r) == IntToEnum(VehicleTypeOrder, (r % 4) + 2)

\* (rand() % 2 == 0) ? VehicleType::CAR : VehicleType::BIKE
GridlockCommuterType(r) == IF r % 2 = 0 THEN "CAR" ELSE "BIKE"

RECURSIVE ForLocals(_, _)
\* for (i < n) spawnLocalVehicle(type of the i-th pass), types the types
\* of the passes that remain.
ForLocals(w, types) ==
    IF types = <<>> THEN w ELSE ForLocals(spawnLocalVehicle(w, Head(types)), Tail(types))

RECURSIVE ForCommuters(_, _)
\* for (i < n) spawnCommuterVehicle(type of the i-th pass)
ForCommuters(w, types) ==
    IF types = <<>>
    THEN w
    ELSE ForCommuters(spawnCommuterVehicle(w, Head(types)), Tail(types))

RECURSIVE ForPairs(_, _, _)
\* for (j < n) { spawnLocalVehicle(...); spawnCommuterVehicle(...); }
ForPairs(w, ltypes, ctypes) ==
    IF ltypes = <<>>
    THEN w
    ELSE ForPairs(spawnCommuterVehicle(spawnLocalVehicle(w, Head(ltypes)), Head(ctypes)),
                  Tail(ltypes), Tail(ctypes))

\* The types of the passes of a loop from the results of rand().
LocalTypes(rl) == [i \in 1..GridlockVehicles |-> GridlockLocalType(rl[i])]
CommuterTypes(rc) == [i \in 1..GridlockVehicles |-> GridlockCommuterType(rc[i])]
Cars == [i \in 1..ParkingFullCars |-> "CAR"]

\* switch (cmdMsg.command) at the top of the loop.
TopSwitch(w, c, rl, rc) ==
    CASE c = "GREEN_WAVE" -> WriteCoord(spawnLocalVehicle(w, "AMBULANCE"))
      [] c = "PARKING_FULL" -> ForLocals(w, Cars)
      [] c = "GRIDLOCK" -> ForCommuters(ForLocals(w, LocalTypes(rl)), CommuterTypes(rc))
      [] OTHER -> w

\* Mutant: the RED loop's GRIDLOCK branch draws the commuters' types as it
\* draws the local vehicles' types.
RedSwitch_CommutersOfAnyType(w, c, rl, rc) ==
    CASE c = "GREEN_WAVE" -> WriteCoord(spawnLocalVehicle(w, "AMBULANCE"))
      [] c = "PARKING_FULL" -> ForLocals(w, Cars)
      [] c = "GRIDLOCK" -> ForPairs(w, LocalTypes(rl), LocalTypes(rc))
      [] OTHER -> w

\* The if / else if chain on cmdMsg.command in a pass of the RED loop.
RedSwitch(w, c, rl, rc) ==
    CASE c = "GREEN_WAVE" -> WriteCoord(spawnLocalVehicle(w, "AMBULANCE"))
      [] c = "PARKING_FULL" -> ForLocals(w, Cars)
      [] c = "GRIDLOCK" -> ForPairs(w, LocalTypes(rl), CommuterTypes(rc))
      [] OTHER -> w

\* What a run of the switch leaves alone.
switchFrame == <<lotVars, vehVars, gateVars, ctlPc, tick, emergencyMode, timeVars, wireVars,
                 teleVars, cmdWireVars, f10Pc, f10Tick, cmdPipe, clicks, telemetry, visOpen,
                 lastLight>>

\* The controller after the branch.
Switched(w, c, at) ==
    /\ vehicleIdCounter' = w.vid
    /\ commuterIdCounter' = w.cid
    /\ coordPipe' = w.frames
    /\ issued' = issued \cup {w.log[k].id : k \in 1..Len(w.log)}
    /\ started' = [local |-> Cardinality({k \in 1..Len(w.log) : w.log[k].route = "local"}),
                   commuter |-> Cardinality({k \in 1..Len(w.log) :
                                               w.log[k].route = "commuter"}),
                   ambulance |-> Cardinality({k \in 1..Len(w.log) :
                                                w.log[k].type = "AMBULANCE"})]
    /\ spawnLog' = w.log
    /\ polled' = c
    /\ pollAt' = at
    /\ UNCHANGED switchFrame

\* The read at the top of the loop takes a frame with command c; the branch
\* draws what it draws from rand().
F10SwitchAtTop(c) ==
    /\ pollAt = "none"
    /\ \E rl \in LocalDraws, rc \in CommuterDraws :
          Switched(TopSwitch(SwitchState, c, rl, rc), c, "top")

\* The read in a pass of the RED loop takes a frame with command c.
F10SwitchAtRedTick(c) ==
    /\ pollAt = "none"
    /\ \E rl \in LocalDraws, rc \in CommuterDraws :
          Switched(RedSwitch(SwitchState, c, rl, rc), c, "red")

SwitchNext ==
    \E c \in Commands :
        \/ F10SwitchAtTop(c)
        \/ F10SwitchAtRedTick(c)

SwitchSpec == F10SpecInit /\ [][SwitchNext]_vars

(***************************************************************************)
(* The ParkingLot as a class: waitForSpot and leave take an int and accept *)
(* any value.  Here a caller that has queued passes any index to           *)
(* waitForSpot, and a caller that was granted a spot passes any index to   *)
(* leave: its own, another one, or one out of range.                       *)
(***************************************************************************)
\* waitForSpot(q)
ApiWaitForSpotCall(v, q) ==
    /\ pc[v] = "queued"
    /\ UNCHANGED envVars
    /\ queueIdx' = [queueIdx EXCEPT ![v] = q]
    /\ pc' = [pc EXCEPT ![v] = "ws_wait"]
    /\ UNCHANGED <<lotVars, spotIndex, eqEffect>>

\* leave(i): takes the lock.
ApiLeaveLock(v, i) ==
    /\ pc[v] = "parked"
    /\ UNCHANGED envVars
    /\ lock = NoThread
    /\ lock' = v
    /\ spotIndex' = [spotIndex EXCEPT ![v] = i]
    /\ pc' = [pc EXCEPT ![v] = "lv_clear"]
    /\ UNCHANGED <<spots, queue, occupiedSpots, waitingCount, spotOccupied,
                   queueSlotOccupied, queueIdx, eqEffect>>

ApiNext ==
    \E v \in Vehicles :
        \/ Spawn(v)
        \/ EnterQueueTry(v)
        \/ EnterQueueLock(v)
        \/ EnterQueueCount(v)
        \/ EnterQueueScan(v)
        \/ \E q \in -1..PARKING_QUEUE_SIZE : ApiWaitForSpotCall(v, q)
        \/ WaitForSpotSemWait(v)
        \/ WaitForSpotSemPost(v)
        \/ WaitForSpotLock(v)
        \/ WaitForSpotDequeue(v)
        \/ WaitForSpotScan(v)
        \/ \E i \in -1..PARKING_CAPACITY : ApiLeaveLock(v, i)
        \/ LeaveClear(v)
        \/ LeavePost(v)
        \/ VehicleExit(v)

ApiSpec == Init /\ [][ApiNext]_vars

(***************************************************************************)
(* Concurrent enterQueue calls on a fresh lot: every thread calls          *)
(* enterQueue once, and no thread calls waitForSpot.                       *)
(***************************************************************************)
EnterNext ==
    \E v \in Vehicles :
        \/ Spawn(v)
        \/ EnterQueueTry(v)
        \/ EnterQueueLock(v)
        \/ EnterQueueCount(v)
        \/ EnterQueueScan(v)

EnterSpec == Init /\ [][EnterNext]_vars

(***************************************************************************)
(* The PARKING_FULL scenario on an idle lot: the controller spawns 16 =    *)
(* PARKING_CAPACITY + PARKING_QUEUE_SIZE + 1 direct-route CARs, one after  *)
(* the other, and no other vehicle runs.  The specification covers the     *)
(* scenario until the first parked vehicle's dwell ends: no vehicle leaves.*)
(***************************************************************************)
ScenarioVehicles == 1..(PARKING_CAPACITY + PARKING_QUEUE_SIZE + 1)

\* The next CAR of the burst has passed its gate and calls enterQueue.
ScenarioSpawn(v) ==
    /\ \A w \in 1..(v - 1) : pc[w] # "idle"
    /\ Spawn(v)

ParkingFullInit ==
    /\ LotInit
    /\ VehInit(ScenarioVehicles)
    /\ EnvInit(ScenarioVehicles)

ParkingFullNext ==
    \E v \in ScenarioVehicles :
        \/ ScenarioSpawn(v)
        \/ EnterQueueTry(v)
        \/ EnterQueueLock(v)
        \/ EnterQueueCount(v)
        \/ EnterQueueScan(v)
        \/ WaitForSpotCall(v)
        \/ WaitForSpotSemWait(v)
        \/ WaitForSpotSemPost(v)
        \/ WaitForSpotLock(v)
        \/ WaitForSpotDequeue(v)
        \/ WaitForSpotScan(v)

ParkingFullSpec == ParkingFullInit /\ [][ParkingFullNext]_vars

(***************************************************************************)
(* One lot with more vehicles than it can admit: PARKING_CAPACITY +        *)
(* PARKING_QUEUE_SIZE + 1 threads that park, leave and are spawned again.  *)
(***************************************************************************)
CrowdNext ==
    \E v \in ScenarioVehicles :
        \/ Spawn(v)
        \/ EnterQueueTry(v)
        \/ EnterQueueLock(v)
        \/ EnterQueueCount(v)
        \/ EnterQueueScan(v)
        \/ WaitForSpotCall(v)
        \/ WaitForSpotSemWait(v)
        \/ WaitForSpotSemPost(v)
        \/ WaitForSpotLock(v)
        \/ WaitForSpotDequeue(v)
        \/ WaitForSpotScan(v)
        \/ LeaveLock(v)
        \/ LeaveClear(v)
        \/ LeavePost(v)
        \/ VehicleExit(v)

CrowdSpec == ParkingFullInit /\ [][CrowdNext]_vars

(***************************************************************************)
(* The order of the grants: a lot whose queue has one place more, so that  *)
(* two vehicles can wait in it while every spot is taken, and as many      *)
(* threads as the lot admits.  Each thread runs its thread function once,  *)
(* up to its drive to the end point.                                       *)
(***************************************************************************)
OrderQueueSize == PARKING_QUEUE_SIZE + 1

OrderVehicles == 1..(PARKING_CAPACITY + OrderQueueSize)

\* ParkingLot::ParkingLot() with a queue of OrderQueueSize places.
OrderInit ==
    /\ spots = PARKING_CAPACITY
    /\ queue = OrderQueueSize
    /\ lock = NoThread
    /\ occupiedSpots = 0
    /\ waitingCount = 0
    /\ spotOccupied = [i \in Spots |-> FALSE]
    /\ queueSlotOccupied = [i \in 0..(OrderQueueSize - 1) |-> FALSE]
    /\ VehInit(OrderVehicles)
    /\ EnvInit(OrderVehicles)

OrderNext ==
    \E v \in OrderVehicles :
        \/ Spawn(v)
        \/ EnterQueueTry(v)
        \/ EnterQueueLock(v)
        \/ EnterQueueCount(v)
        \/ EnterQueueScan(v)
        \/ WaitForSpotCall(v)
        \/ WaitForSpotSemWait(v)
        \/ WaitForSpotSemPost(v)
        \/ WaitForSpotLock(v)
        \/ WaitForSpotDequeue(v)
        \/ WaitForSpotScan(v)
        \/ LeaveLock(v)
        \/ LeaveClear(v)
        \/ LeavePost(v)

OrderSpec == OrderInit /\ [][OrderNext]_vars

\* The scenario has run its course: every CAR is parked, was rejected, or is
\* blocked in sem_wait(&spots) with no unit left.
ScenarioSettled ==
    \A v \in ScenarioVehicles :
        \/ pc[v] \in {"parked", "cross"}
        \/ pc[v] = "ws_wait" /\ spots = 0

(***************************************************************************)
(* Who holds what.                                                         *)
(***************************************************************************)
\* v holds a queue index: from its assignment in enterQueue until
\* waitForSpot clears the slot.
HoldsQueueSlot(v) == pc[v] \in {"queued", "ws_wait", "ws_post", "ws_lock", "ws_dequeue"}

\* v holds a spot index: from its assignment in waitForSpot until leave
\* clears the spot.
HoldsSpot(v) == pc[v] \in {"parked", "lv_clear"}

\* v holds a unit of the spots semaphore: from sem_wait(&spots) in
\* waitForSpot until sem_post(&spots) in leave.
HoldsSpotUnit(v) ==
    pc[v] \in {"ws_post", "ws_lock", "ws_dequeue", "ws_scan", "parked", "lv_clear", "lv_post"}

\* v has queued and has not yet acquired a spot unit in waitForSpot.
AwaitsGrant(v) == pc[v] \in {"queued", "ws_wait"}

\* v's use of the lot is over: it was rejected, or it parked and left.
Finished(v) == pc[v] \in {"idle", "cross", "exit"}

\* The lot as its constructor leaves it.
LotIsInitial ==
    /\ spots = PARKING_CAPACITY
    /\ queue = PARKING_QUEUE_SIZE
    /\ occupiedSpots = 0
    /\ waitingCount = 0
    /\ \A i \in Spots : ~spotOccupied[i]
    /\ \A i \in QueueSlots : ~queueSlotOccupied[i]

(***************************************************************************)
(* C1: in every reachable state 0 <= waitingCount <= PARKING_QUEUE_SIZE.   *)
(* Violated: waitForSpot posts the queue semaphore before it takes the     *)
(* lock and decrements waitingCount, so a new enterQueue call is admitted  *)
(* and counted while the full queue is still counted.                      *)
(***************************************************************************)
C1_WaitingCountBounded ==
    waitingCount >= 0 /\ waitingCount <= PARKING_QUEUE_SIZE

(***************************************************************************)
(* C2: in every reachable state 0 <= occupiedSpots <= PARKING_CAPACITY.    *)
(***************************************************************************)
C2_OccupiedSpotsBounded ==
    occupiedSpots >= 0 /\ occupiedSpots <= PARKING_CAPACITY

\* The lot is full and a queued vehicle is blocked in sem_wait(&spots).
C2_Witness ==
    /\ occupiedSpots = PARKING_CAPACITY
    /\ spots = 0
    /\ \E v \in Vehicles : pc[v] = "ws_wait"

(***************************************************************************)
(* C3: whenever the lock is not held, waitingCount is the number of set    *)
(* entries of the queue-slot bitmap.  Violated: the enterQueue call that   *)
(* is admitted while every slot is still marked counts itself and marks    *)
(* nothing.                                                                *)
(***************************************************************************)
C3_WaitingCountIsPopCount ==
    lock = NoThread => waitingCount = PopCount(queueSlotOccupied)

(***************************************************************************)
(* C4: whenever the lock is not held, occupiedSpots is the number of set   *)
(* entries of the spot bitmap.                                             *)
(***************************************************************************)
C4_OccupiedSpotsIsPopCount ==
    lock = NoThread => occupiedSpots = PopCount(spotOccupied)

\* A vehicle has left spot 0 while the last spot is still held: the bitmap
\* has a hole and the counter was decremented.
C4_Witness ==
    /\ lock = NoThread
    /\ ~spotOccupied[0]
    /\ spotOccupied[PARKING_CAPACITY - 1]
    /\ occupiedSpots >= 1
    /\ \E v \in Vehicles : pc[v] = "lv_post"

(***************************************************************************)
(* C5: no two vehicles hold the same spot index at the same time, and no   *)
(* two vehicles hold the same queue index at the same time.                *)
(***************************************************************************)
C5_HeldIndicesUnique ==
    \A v, w \in Vehicles :
        v # w =>
            /\ (HoldsSpot(v) /\ HoldsSpot(w) => spotIndex[v] # spotIndex[w])
            /\ (HoldsQueueSlot(v) /\ HoldsQueueSlot(w) => queueIdx[v] # queueIdx[w])

\* Two vehicles hold spots while a third holds a queue slot.
C5_Witness ==
    /\ \E v, w \in Vehicles : v # w /\ HoldsSpot(v) /\ HoldsSpot(w)
    /\ \E u \in Vehicles : HoldsQueueSlot(u) /\ queueIdx[u] \in QueueSlots

(***************************************************************************)
(* C6: enterQueue returns -1 if and only if no queue unit was free when it *)
(* was called; otherwise it has incremented waitingCount by one, it marks  *)
(* the lowest-numbered free queue slot and returns that index.  Violated:  *)
(* a call that found a free unit returns -1 when every slot of the bitmap  *)
(* is still marked.                                                        *)
(***************************************************************************)
C6_EnterQueueResult ==
    [][\A v \in Vehicles :
        /\ (pc[v] # "cross" /\ pc'[v] = "cross") => eqEffect'[v].units = 0
        /\ (pc[v] # "queued" /\ pc'[v] = "queued") =>
              /\ eqEffect'[v].units = 1
              /\ eqEffect'[v].waiting = 1
              /\ queueIdx'[v] \in QueueSlots
              /\ ~queueSlotOccupied[queueIdx'[v]]
              /\ \A j \in 0..(queueIdx'[v] - 1) : queueSlotOccupied[j]
              /\ queueSlotOccupied'[queueIdx'[v]]]_vars

(***************************************************************************)
(* C7: a call of enterQueue that returned -1 has left waitingCount, the    *)
(* queue-slot bitmap and the number of available queue units as they were. *)
(* Violated: the call that returns -1 from the scan has taken a queue unit *)
(* and incremented waitingCount, and gives neither back.                   *)
(***************************************************************************)
C7_RejectionLeavesLotUnchanged ==
    \A v \in Vehicles : pc[v] = "cross" => eqEffect[v] = NoEffect

(***************************************************************************)
(* C8: once every vehicle has finished (was rejected, or parked and        *)
(* left), the lot is back in its initial state.  Violated: the queue unit  *)
(* and the count taken by a call that returned -1 from the scan are lost.  *)
(***************************************************************************)
C8_ReleasedCapacityReusable ==
    (\A v \in Vehicles : Finished(v)) => LotIsInitial

(***************************************************************************)
(* C9: a waitForSpot call decrements waitingCount by one and clears the    *)
(* caller's queue slot, and returns a spot index in 0..PARKING_CAPACITY-1  *)
(* (never -1) that was free, is the lowest-numbered free spot and is now   *)
(* marked, having incremented occupiedSpots by one.                        *)
(***************************************************************************)
C9_WaitForSpotResult ==
    [][\A v \in Vehicles :
        /\ (pc[v] = "ws_dequeue" /\ pc'[v] = "ws_scan") =>
              /\ waitingCount' = waitingCount - 1
              /\ queueSlotOccupied[queueIdx[v]]
              /\ ~queueSlotOccupied'[queueIdx[v]]
        /\ (pc[v] = "ws_scan" /\ pc'[v] = "parked") =>
              /\ spotIndex'[v] \in Spots
              /\ ~spotOccupied[spotIndex'[v]]
              /\ \A j \in 0..(spotIndex'[v] - 1) : spotOccupied[j]
              /\ spotOccupied'[spotIndex'[v]]
              /\ occupiedSpots' = occupiedSpots + 1]_vars

\* A vehicle has left and both spots are held again: a waitForSpot call has
\* returned a released index.
C9_Witness ==
    /\ \E v \in Vehicles : pc[v] \in {"lv_post", "exit"}
    /\ \E v, w \in Vehicles :
          /\ pc[v] = "parked" /\ spotIndex[v] = 0
          /\ pc[w] = "parked" /\ spotIndex[w] = PARKING_CAPACITY - 1

(***************************************************************************)
(* C10: from its successful enterQueue until it has acquired a spot unit   *)
(* in waitForSpot, a vehicle's queue-bitmap entry stays set and its queue  *)
(* unit stays taken: the units available plus the vehicles that await a    *)
(* grant never exceed PARKING_QUEUE_SIZE.                                  *)
(***************************************************************************)
C10_QueueSlotHeldUntilGrant ==
    /\ \A v \in Vehicles :
          AwaitsGrant(v) =>
              /\ queueIdx[v] \in QueueSlots
              /\ queueSlotOccupied[queueIdx[v]]
    /\ queue + Cardinality({v \in Vehicles : AwaitsGrant(v)}) <= PARKING_QUEUE_SIZE

\* A vehicle has queued and not yet called waitForSpot, a spot is free, and
\* another vehicle stands rejected with the queue still full.
C10_Witness ==
    /\ spots > 0
    /\ queue = 0
    /\ \E v \in Vehicles : pc[v] = "queued"
    /\ \E w \in Vehicles : pc[w] = "cross" /\ eqEffect[w] = NoEffect

(***************************************************************************)
(* C11: under fair scheduling, where every parked vehicle calls leave      *)
(* after its dwell, a vehicle that has queued and waits in waitForSpot for *)
(* a spot unit is eventually parked with a spot index in                   *)
(* 0..PARKING_CAPACITY-1.                                                  *)
(***************************************************************************)
C11_BlockedWaiterEventuallyParks ==
    \A v \in Vehicles :
        (pc[v] = "ws_wait") ~> (pc[v] = "parked" /\ spotIndex[v] \in Spots)

\* A vehicle is blocked in sem_wait(&spots), no unit is free, and a parked
\* vehicle is in leave, about to post the unit it held.
C11_Witness ==
    /\ spots = 0
    /\ \E v \in Vehicles : pc[v] = "ws_wait"
    /\ \E w \in Vehicles : pc[w] = "lv_post"

(***************************************************************************)
(* C12: leave(spotIndex), called by the holder of spotIndex, clears that   *)
(* spot and no other, decrements occupiedSpots by one and posts one spot   *)
(* unit.  A waiter takes one unit to proceed, and the units available plus *)
(* the units held are always PARKING_CAPACITY: a leave lets exactly one    *)
(* waiter proceed.                                                         *)
(***************************************************************************)
C12_LeaveReleasesOneSpot ==
    /\ [](spots + Cardinality({v \in Vehicles : HoldsSpotUnit(v)}) = PARKING_CAPACITY)
    /\ [][\A v \in Vehicles :
            /\ (pc[v] = "lv_clear" /\ pc'[v] = "lv_post") =>
                  /\ spotIndex[v] \in Spots
                  /\ spotOccupied[spotIndex[v]]
                  /\ spotOccupied' = [spotOccupied EXCEPT ![spotIndex[v]] = FALSE]
                  /\ occupiedSpots' = occupiedSpots - 1
            /\ (pc[v] = "lv_post" /\ pc'[v] = "exit") => spots' = spots + 1
            /\ (pc[v] = "ws_wait" /\ pc'[v] = "ws_post") =>
                  /\ spots >= 1
                  /\ spots' = spots - 1]_vars

\* A vehicle has left the full lot while another waits in sem_wait(&spots):
\* one unit is available, for one waiter.
C12_Witness ==
    /\ spots = 1
    /\ occupiedSpots = PARKING_CAPACITY - 1
    /\ \E v \in Vehicles : pc[v] = "ws_wait"
    /\ \E w \in Vehicles : pc[w] = "exit"

(***************************************************************************)
(* C13: releasing with an out-of-range index is a no-op: a leave(i) with   *)
(* i < 0 or i >= PARKING_CAPACITY leaves occupiedSpots, the spot bitmap    *)
(* and the value of the spots semaphore as they were, and a waitForSpot(q) *)
(* with q outside 0..PARKING_QUEUE_SIZE-1 leaves the queue bitmap as it    *)
(* was.  Violated: leave skips only the write of the bitmap; it decrements *)
(* occupiedSpots and posts the semaphore whatever the index.               *)
(***************************************************************************)
C13_OutOfRangeReleaseIsNoOp ==
    [][\A v \in Vehicles :
        /\ (pc[v] = "lv_clear" /\ pc'[v] = "lv_post" /\ spotIndex[v] \notin Spots) =>
              /\ occupiedSpots' = occupiedSpots
              /\ spotOccupied' = spotOccupied
        /\ (pc[v] = "lv_post" /\ pc'[v] = "exit" /\ spotIndex[v] \notin Spots) =>
              spots' = spots
        /\ (pc[v] = "ws_dequeue" /\ pc'[v] = "ws_scan" /\ queueIdx[v] \notin QueueSlots) =>
              queueSlotOccupied' = queueSlotOccupied]_vars

C15_ParkingFullOutcome ==
    /\ Cardinality({v \in ScenarioVehicles : AwaitsGrant(v)}) <= PARKING_QUEUE_SIZE
    /\ ScenarioSettled =>
          /\ Cardinality({v \in ScenarioVehicles : pc[v] = "parked"}) = PARKING_CAPACITY
          /\ \E v \in ScenarioVehicles : pc[v] = "cross"


(***************************************************************************)
(* The gate and the park decision                                          *)
(***************************************************************************)
\* A thread that is inside the parking lot's protocol, from the call of
\* enterQueue to the return of leave.
InLot(v) ==
    pc[v] \in {"enter", "eq_lock", "eq_count", "eq_scan", "queued", "ws_wait",
               "ws_post", "ws_lock", "ws_dequeue", "ws_scan", "parked",
               "lv_clear", "lv_post"}

\* A thread that has left the stop line of its gate poll.
PastGate(v) == InLot(v) \/ pc[v] \in {"cross", "exit"}

\* C16: a vehicle that is neither AMBULANCE nor FIRETRUCK leaves the stop
\* line of its gate poll only after a poll that read GREEN, and the poll
\* reads the gate's state while it holds the state lock; a vehicle of an
\* emergency type leaves after its first poll whatever the state read.  This
\* holds for the threads of every routine.
C16_GateHoldsNonEmergency ==
    /\ [](\A v \in Vehicles : pc[v] = "gate_read" => lightMutex = v)
    /\ [][\A v \in Vehicles :
            /\ (pc[v] = "gate_read" /\ pc'[v] # "gate_read")
                  => state'[v] = lightState[proc]
            /\ (pc[v] = "gate_test" /\ PastGate(v)')
                  => (state[v] = "GREEN" \/ vtype[v] \in EmergencyTypes)
            /\ (pc[v] = "gate_test" /\ pc'[v] = "gate_lock")
                  => (state[v] = "RED" /\ vtype[v] \notin EmergencyTypes)]_vars

\* An emergency vehicle has left its stop line on a poll that read RED while
\* a vehicle of another type, a commuter or a local vehicle of intersection
\* 11, has left its own on a poll that read GREEN.
C16_Witness ==
    /\ \E v \in Vehicles :
          pc[v] = "cross" /\ vtype[v] \in EmergencyTypes /\ state[v] = "RED"
    /\ \E w \in Vehicles :
          /\ PastGate(w)
          /\ vtype[w] \notin EmergencyTypes
          /\ state[w] = "GREEN"
          /\ routine[w] \in {"commuterThreadFunc", "f11LocalVehicleThreadFunc"}

\* C17: only the threads of CAR and BIKE vehicles ever call enterQueue, hold
\* a queue slot or occupy a parking spot.
C17_OnlyCarAndBikePark ==
    \A v \in Vehicles :
        (InLot(v) \/ HoldsQueueSlot(v) \/ HoldsSpot(v) \/ pc[v] = "exit")
            => vtype[v] \in ParkingTypes

\* A BUS is across the intersection, never having called enterQueue, while
\* a BIKE is parked.
C17_Witness ==
    /\ \E v \in Vehicles : vtype[v] = "BUS" /\ pc[v] = "cross" /\ eqEffect[v] = NoEffect
    /\ \E w \in Vehicles : vtype[w] = "BIKE" /\ pc[w] = "parked"

\* C18: a CAR or BIKE of a direct route (not a commuter) that may leave its
\* stop line can go straight across the intersection without calling
\* enterQueue; a commuter CAR or BIKE cannot: it always calls enterQueue.
C18_DirectRouteMaySkipParking ==
    \A v \in Vehicles :
        (pc[v] = "gate_test" /\ MayPass(v) /\ vtype[v] \in ParkingTypes)
            => ((routine[v] # "commuterThreadFunc")
                  <=> ENABLED (GateTest(v) /\ pc'[v] = "cross"))

\* C19: a commuter leaves the stop line of intersection 11 only after it
\* has seen that intersection's gate GREEN, unless it is an AMBULANCE or a
\* FIRETRUCK.
C19_CommuterWaitsAtF11Gate ==
    [][\A v \in Vehicles :
          (pc[v] = "f11_stop" /\ pc'[v] # "f11_stop")
              => (11 \in gateSeen[v] \/ vtype[v] \in EmergencyTypes)]_vars

(***************************************************************************)
(* Emergency preemption                                                    *)
(***************************************************************************)
\* Controller F11 is in the sleep(5) that follows an emergency frame.
InHold == ctlPc \in {"hold_top", "hold_tick"}

C22_FrameDuringHoldIsNoOp ==
    [][InHold => coordPipe' = coordPipe]_vars

\* C21: with time counted in slices of 500 ms, a coordination frame has
\* forced the gate of controller F11 GREEN within one slice of its arrival,
\* whatever the controller was doing: a frame that has been in the pipe for
\* more than one slice finds the gate GREEN; and a hold ends no later than
\* ten slices after its forced GREEN began.
C21_ForcedGreenWithinOneSlice ==
    /\ \A k \in DOMAIN age : age[k] > 1 => lightState[11] = "GREEN"
    /\ InHold => nap <= HoldSlices

(***************************************************************************)
(* Controller F10's commands                                               *)
(***************************************************************************)
\* C23: every GREEN_WAVE command that controller F10 reads starts exactly
\* one vehicle, an AMBULANCE, and appends exactly one EMERGENCY_APPROACHING
\* frame with source 10 to the coordination pipe; and a frame is appended to
\* the coordination pipe by no other step.
C23_GreenWaveSpawnsAndSignalsOnce ==
    [][/\ (Len(cmdPipe') < Len(cmdPipe) /\ Head(cmdPipe) = "GREEN_WAVE")
            => /\ started' = [local |-> 1, commuter |-> 0, ambulance |-> 1]
               /\ vehicleIdCounter' = vehicleIdCounter + 1
               /\ coordPipe' = Append(coordPipe,
                      [type |-> "EMERGENCY_APPROACHING", sourceIntersection |-> 10])
       /\ (Len(coordPipe') > Len(coordPipe))
            => /\ Len(cmdPipe') < Len(cmdPipe)
               /\ Head(cmdPipe) = "GREEN_WAVE"
               /\ Len(coordPipe') = Len(coordPipe) + 1]_vars

\* Controller F10 has read a GREEN_WAVE command in a pass of its RED phase,
\* after another one at the top of its loop: two frames are in the pipe.
C23_Witness ==
    /\ f10Pc = "red_tick"
    /\ f10Tick > 0
    /\ started.ambulance = 1
    /\ Len(coordPipe) = 2

\* C24: controller F10 polls its command pipe at the top of each phase and
\* in every pass of the loops of the RED and of the GREEN phase, and a poll
\* drains the pipe: every step that the controller takes from one of these
\* positions leaves no command frame unread.
C24_EveryPollDrainsCommands ==
    [][(/\ f10Pc \in {"top", "red_tick", "green", "green_tick"}
        /\ <<f10Pc, f10Tick>>' # <<f10Pc, f10Tick>>)
           => cmdPipe' = <<>>]_vars

(***************************************************************************)
(* Telemetry of the controllers                                            *)
(***************************************************************************)
\* Controller F10 has assigned its gate and not yet written the frame.
F10Publishing == f10Pc \in {"red_pub", "green_pub"}

\* C25: every assignment to a controller's gate is followed, before the
\* controller sleeps or assigns the gate again, by a LIGHT_UPDATE frame
\* with the state assigned and the controller's intersection id; so that
\* whenever a controller that has published at all is in a sleep of its
\* phases or in a preemption hold, the last frame it wrote carries the
\* state of its gate.
C25_LightChangesArePublished ==
    /\ [](/\ ((~F10Publishing /\ lastLight[10] # NoFrame)
                => (lastLight[10] = LightUpdate(10, lightState[10])))
           /\ ((f10Pc \in {"red_tick", "green_tick", "park_pub"})
                => (lastLight[10] = LightUpdate(10, lightState[10])))
           /\ ((lastLight[11] # NoFrame)
                => (lastLight[11] = LightUpdate(11, lightState[11])))
           /\ ((InHold \/ ctlPc \in {"red_tick", "green_tick"})
                => (lastLight[11] = LightUpdate(11, lightState[11]))))
    /\ [][/\ ((f10Pc \in {"red", "green"} /\ f10Pc' # f10Pc) => F10Publishing')
           /\ ((F10Publishing /\ f10Pc' # f10Pc)
                => (/\ lastLight'[10] = LightUpdate(10, lightState[10])
                    /\ telemetry' = Append(telemetry, LightUpdate(10, lightState[10]))
                    /\ lightState' = lightState))
           /\ ((ctlPc \in {"red", "green"} /\ ctlPc' # ctlPc)
                => (lastLight'[11] = LightUpdate(11, lightState'[11])))]_vars

\* Controller F10 sleeps in its GREEN phase with GREEN published, while
\* controller F11, whose last phase frame said RED, is in the hold of an
\* emergency with GREEN published.
C25_Witness ==
    /\ f10Pc = "green_tick"
    /\ lastLight[10] = LightUpdate(10, "GREEN")
    /\ ctlPc = "hold_tick"
    /\ lastLight[11] = LightUpdate(11, "GREEN")

\* Controller F10 is at one of its writes to the telemetry pipe.
F10AtWrite == f10Pc \in {"red_pub", "green_pub", "park_pub"}

\* C26: no controller is ever suspended on a channel operation: whenever
\* controller F10 is at a write to the telemetry pipe the write can be
\* done, whether or not the visualizer has read the pipe or still runs.
C26_NoControllerSuspendedOnPipe == F10AtWrite => ENABLED F10Step

(***************************************************************************)
(* Vehicle ids                                                             *)
(***************************************************************************)
\* C28: no two vehicles spawned by controller F10 have the same id: the ids
\* a step gives out (from the local counter and from the commuter counter)
\* differ from each other and from every id given out before.
C28_IdsUniqueWithinController ==
    [][/\ (vehicleIdCounter..(vehicleIdCounter' - 1)) \cap issued = {}
       /\ (commuterIdCounter..(commuterIdCounter' - 1)) \cap issued = {}
       /\ (vehicleIdCounter..(vehicleIdCounter' - 1))
            \cap (commuterIdCounter..(commuterIdCounter' - 1)) = {}]_vars

(***************************************************************************)
(* The telemetry round trip                                                *)
(***************************************************************************)
\* The frames that have been read whole.
Consumed == SubSeq(sent, 1, Len(sent) - (Len(wire) \div FrameWords))

\* C27: a VEHICLE_UPDATE frame written with the magic and the exact length
\* is reconstructed with every member as it was written; a frame with
\* another magic is dropped whole, and the frames after it are read on
\* their own boundaries: what the visualizer has stored is, in order, the
\* VehicleStates of the intact VEHICLE_UPDATE frames among the frames
\* read, and the pipe holds whole frames only.
C27_TelemetryRoundTrip ==
    /\ Len(wire) % FrameWords = 0
    /\ LET intact == SelectSeq(Consumed, LAMBDA m : m.kind = "vehicle")
       IN  /\ Len(accepted) = Len(intact)
           /\ \A k \in 1..Len(intact) : accepted[k] = intact[k].state
    /\ \A i \in DOMAIN vis.vehicles :
          \E m \in {Consumed[k] : k \in 1..Len(Consumed)} :
              m.kind = "vehicle" /\ m.state = vis.vehicles[i]

\* A frame with another magic was read and dropped, and the VEHICLE_UPDATE
\* written after it has been read and stored.
C27_Witness ==
    /\ wire = <<>>
    /\ \E j \in 1..Len(sent), k \in 1..Len(sent) :
          /\ j < k
          /\ sent[j].kind = "corrupted"
          /\ sent[k].kind = "vehicle"
          /\ sent[k].state.isParked
          /\ accepted # <<>>
          /\ accepted[Len(accepted)] = sent[k].state

Stage(p) ==
    CASE p = "enter" -> 1
      [] p = "eq_lock" -> 2
      [] p = "eq_count" -> 3
      [] p = "eq_scan" -> 4
      [] p = "queued" -> 5
      [] p = "ws_wait" -> 6
      [] p = "ws_post" -> 7
      [] p = "ws_lock" -> 8
      [] p = "ws_dequeue" -> 9
      [] p = "ws_scan" -> 10
      [] p = "parked" -> 11
      [] p = "lv_clear" -> 12
      [] p = "lv_post" -> 13
      [] p \in {"exit", "cross"} -> 14
      [] OTHER -> 0

\* Thread v moves to position p.
Reaches(v, p) == pc[v] # p /\ pc'[v] = p

InQueue(v) ==
    pc[v] \in {"queued", "ws_wait", "ws_post", "ws_lock", "ws_dequeue", "ws_scan"}

\* waitForSpot has returned to v and v has not yet called leave.
HasSpot(v) == pc[v] = "parked"

\* C31: whatever the counters say, at most PARKING_QUEUE_SIZE vehicles are
\* between a successful enterQueue and the grant of a spot, at most
\* PARKING_CAPACITY are between the grant and the call of leave, and so at
\* most PARKING_QUEUE_SIZE + PARKING_CAPACITY are admitted at once.
C31_PhysicalCapacity ==
    /\ Cardinality({v \in ScenarioVehicles : InQueue(v)}) <= PARKING_QUEUE_SIZE
    /\ Cardinality({v \in ScenarioVehicles : HasSpot(v)}) <= PARKING_CAPACITY
    /\ Cardinality({v \in ScenarioVehicles : InQueue(v) \/ HasSpot(v)})
          <= PARKING_QUEUE_SIZE + PARKING_CAPACITY

\* The lot is full and its queue is full while one more vehicle, turned
\* away, crosses.
C31_Witness ==
    /\ Cardinality({v \in ScenarioVehicles : HasSpot(v)}) = PARKING_CAPACITY
    /\ Cardinality({v \in ScenarioVehicles : InQueue(v)}) = PARKING_QUEUE_SIZE
    /\ \E v \in ScenarioVehicles : pc[v] = "cross" /\ queueIdx[v] = -1

(***************************************************************************)
(* The end of a vehicle                                                    *)
(***************************************************************************)
\* C32: under fair scheduling every vehicle that has reached the lot ends
\* its thread function, and it ends holding nothing of the lot: a vehicle
\* that crosses without parking has taken no queue unit that it did not
\* give back, and a vehicle that has left holds no spot and no queue slot.
\* Violated: a vehicle whose enterQueue returned -1 from the scan ends
\* with the queue unit that sem_trywait gave it.
C32_RunsToCompletionHoldingNothing ==
    /\ \A v \in Vehicles : (pc[v] = "enter") ~> (pc[v] = "idle")
    /\ [](\A v \in Vehicles :
            /\ (pc[v] = "cross") => (eqEffect[v].units = 0)
            /\ (pc[v] \in {"cross", "exit"})
                 => (queueIdx[v] = -1 /\ spotIndex[v] = -1))

(***************************************************************************)
(* The phases                                                              *)
(***************************************************************************)
\* The position that follows position p in controller F10's loop.
F10After(p) ==
    CASE p = "top" -> "red"
      [] p = "red" -> "red_pub"
      [] p = "red_pub" -> "red_tick"
      [] p = "red_tick" -> "green"
      [] p = "green" -> "green_pub"
      [] p = "green_pub" -> "green_tick"
      [] p = "green_tick" -> "park_pub"
      [] p = "park_pub" -> "top"

CmdConsumed == SubSeq(cmdSent, 1, Len(cmdSent) - (Len(cmdWire) \div CommandWords))

\* C34: controller F10 never acts on a command frame whose magic differs
\* from CMD_MAGIC: the read that takes such a frame takes it whole and
\* spawns nothing, writes no coordination frame and leaves the gates as
\* they are; the commands applied are, in order, those of the frames with
\* CMD_MAGIC among the frames read, so that the frames written after a
\* corrupted one are read on their own boundaries and applied.
C34_CorruptedCommandIgnored ==
    /\ [](/\ Len(cmdWire) % CommandWords = 0
           /\ LET good == SelectSeq(CmdConsumed, LAMBDA m : m.valid)
              IN  /\ Len(cmdApplied) = Len(good)
                  /\ \A k \in 1..Len(good) : cmdApplied[k] = good[k].command)
    /\ [][(Len(CmdConsumed') > Len(CmdConsumed) /\ ~CmdConsumed'[Len(CmdConsumed')].valid)
            => (/\ Len(cmdWire') = Len(cmdWire) - CommandWords
                /\ UNCHANGED <<vehicleIdCounter, commuterIdCounter, issued, coordPipe,
                               lightState, cmdApplied>>
                /\ started' = NoneStarted)]_vars

\* A frame with another magic has been read, and the GREEN_WAVE written
\* after it has been read and applied.
C34_Witness ==
    /\ cmdWire = <<>>
    /\ \E j \in 1..Len(cmdSent), k \in 1..Len(cmdSent) :
          /\ j < k
          /\ ~cmdSent[j].valid
          /\ cmdSent[k].valid /\ cmdSent[k].command = "GREEN_WAVE"
    /\ cmdApplied # <<>>
    /\ cmdApplied[Len(cmdApplied)] = "GREEN_WAVE"
    /\ started.ambulance = 1

(***************************************************************************)
(* The effect of a command at the two poll points of controller F10        *)
(***************************************************************************)
\* The vehicles of a route among those that the branch started.
Started(route) == SelectSeq(spawnLog, LAMBDA m : m.route = route)

\* C36: at controller F10 a command has the same effect at the top of the
\* loop and in a pass of the RED loop: GREEN_WAVE starts one AMBULANCE on
\* the local route and writes one EMERGENCY_APPROACHING frame; PARKING_FULL
\* starts 16 CARs on the local route; GRIDLOCK starts 5 local vehicles of
\* types BUS, CAR, BIKE or TRACTOR and 5 commuters of types CAR or BIKE,
\* never an AMBULANCE or a FIRETRUCK; only GREEN_WAVE writes a frame.
C36_SameEffectAtBothPolls ==
    (pollAt \in {"top", "red"}) =>
        /\ vehicleIdCounter = InitialLocals + Len(Started("local"))
        /\ commuterIdCounter = CommuterIdBase + InitialCommuters + Len(Started("commuter"))
        /\ coordPipe = IF polled = "GREEN_WAVE" THEN <<EmergencyFrame>> ELSE <<>>
        /\ (polled = "GREEN_WAVE") =>
              (/\ Len(spawnLog) = 1
               /\ spawnLog[1].route = "local"
               /\ spawnLog[1].type = "AMBULANCE")
        /\ (polled = "PARKING_FULL") =>
              (/\ Len(spawnLog) = ParkingFullCars
               /\ \A k \in 1..Len(spawnLog) :
                     spawnLog[k].route = "local" /\ spawnLog[k].type = "CAR")
        /\ (polled = "GRIDLOCK") =>
              (/\ Len(Started("local")) = GridlockVehicles
               /\ Len(Started("commuter")) = GridlockVehicles
               /\ Len(spawnLog) = GridlockVehicles + GridlockVehicles
               /\ \A k \in 1..Len(spawnLog) :
                     /\ spawnLog[k].route = "local" =>
                           spawnLog[k].type \in {"BUS", "CAR", "BIKE", "TRACTOR"}
                     /\ spawnLog[k].route = "commuter" =>
                           spawnLog[k].type \in {"CAR", "BIKE"})

\* A pass of the RED loop has read GRIDLOCK and started a TRACTOR and then
\* a commuting BIKE, the local vehicles and the commuters in turn.
C36_Witness ==
    /\ pollAt = "red"
    /\ polled = "GRIDLOCK"
    /\ Len(spawnLog) = GridlockVehicles + GridlockVehicles
    /\ spawnLog[1].route = "local" /\ spawnLog[1].type = "TRACTOR"
    /\ spawnLog[2].route = "commuter" /\ spawnLog[2].type = "BIKE"

(***************************************************************************)
(* The command pipe as a queue                                             *)
(***************************************************************************)
\* The command frames that controller F10 has read.
CommandsRead == clicks - Len(cmdPipe)

UnderLotLock(v) ==
    \/ EnterQueueCount(v)
    \/ EnterQueueScan(v)
    \/ WaitForSpotDequeue(v)
    \/ WaitForSpotScan(v)
    \/ LeaveClear(v)

\* The thread v takes the step.
Acts(v) == pc'[v] # pc[v]

\* C37: lock discipline.  The counters and bitmaps of the lot change only
\* in a step of the thread that holds the lot's lock, and a thread reads
\* the gate only while it holds the gate's lock; the controller's write of
\* the gate finds the gate's lock free and leaves it free.  A thread that
\* holds a lock is between the lock and the unlock of one critical section,
\* where there is no semaphore wait, no sleep and no write to a pipe: its
\* step takes no unit of a semaphore and writes no frame, and it can always
\* take its next step, so it never waits for anything while it holds a
\* lock.  No thread holds both locks.
C37_LockDiscipline ==
    /\ [](\A v \in GateVehicles :
            /\ (lock = v) => (/\ pc[v] \in {"eq_count", "eq_scan", "ws_dequeue", "ws_scan",
                                             "lv_clear"}
                              /\ ENABLED UnderLotLock(v))
            /\ (lightMutex = v) => (pc[v] = "gate_read" /\ ENABLED GateRead(v))
            /\ ~(lock = v /\ lightMutex = v))
    /\ [][/\ (<<occupiedSpots, waitingCount, spotOccupied, queueSlotOccupied>>' #
                 <<occupiedSpots, waitingCount, spotOccupied, queueSlotOccupied>>) =>
               (lock \in GateVehicles /\ Acts(lock))
          /\ \A v \in GateVehicles :
                /\ (state'[v] # state[v] /\ pc[v] # "cross" /\ pc[v] # "exit") =>
                      (lightMutex = v)
                /\ (Acts(v) /\ (spots' < spots \/ queue' < queue \/ tele'[v] # tele[v])) =>
                      (lock # v /\ lightMutex # v)
          /\ (lightState' # lightState) =>
                (\A v \in GateVehicles : ~Acts(v))
          /\ (lightState'[proc] # lightState[proc]) =>
                (lightMutex = NoThread /\ lightMutex' = NoThread)]_vars

\* One thread is inside waitForSpot's critical section while the other
\* holds the gate's lock in its poll.
C37_Witness ==
    /\ lock = 1
    /\ pc[1] = "ws_scan"
    /\ lightMutex = 2
    /\ pc[2] = "gate_read"

(***************************************************************************)
(* The flags of the vehicles' frames and the lot                           *)
(***************************************************************************)
\* The thread v takes a step in which it writes VEHICLE_UPDATE frames.
Sends(v) == Acts(v) /\ pc[v] \in {"idle", "queued", "parked", "cross", "exit"}

\* C39: the flags of every VEHICLE_UPDATE agree with the lot when the frame
\* is written.  A frame with isInQueue = true carries a queueIndex of the
\* queue, whose slot is marked occupied and is held by the sender and by no
\* other vehicle; a frame with isInQueue = false carries queueIndex = -1; a
\* frame with isParked = true is written by a vehicle between the return of
\* waitForSpot and its call of leave, whose spot is marked occupied and is
\* held by no other vehicle.
C39_FlagsAgreeWithLot ==
    [][\A v \in ScenarioVehicles :
          Sends(v) =>
             LET f == lastFrame'[v] IN
               /\ f.isInQueue =>
                     (/\ f.queueIndex \in QueueSlots
                      /\ pc[v] = "queued"
                      /\ queueSlotOccupied[f.queueIndex]
                      /\ \A w \in ScenarioVehicles \ {v} :
                            ~(HoldsQueueSlot(w) /\ queueIdx[w] = f.queueIndex))
               /\ (~f.isInQueue) => (f.queueIndex = -1)
               /\ (pc[v] = "queued") => f.isInQueue
               /\ f.isParked =>
                     (/\ pc[v] = "parked"
                      /\ spotIndex[v] \in Spots
                      /\ spotOccupied[spotIndex[v]]
                      /\ \A w \in ScenarioVehicles \ {v} :
                            ~(HoldsSpot(w) /\ spotIndex[w] = spotIndex[v]))
               /\ (pc[v] = "parked") => f.isParked]_vars

\* A vehicle's parked frame is the most recent one while another vehicle's
\* most recent frame shows it in the queue.
C39_Witness ==
    \E v, w \in ScenarioVehicles :
        /\ pc[v] = "lv_clear"
        /\ lastFrame[v].isParked /\ ~lastFrame[v].isInQueue
        /\ pc[w] = "ws_wait"
        /\ lastFrame[w].isInQueue /\ lastFrame[w].queueIndex = 0

(***************************************************************************)
(* Two vehicles shown in one queue slot                                    *)
(***************************************************************************)
\* C40: taking for each vehicle its most recent VEHICLE_UPDATE, no two
\* active vehicles are reported with isInQueue = true and the same
\* queueIndex.
C40_OneVehiclePerQueueSlot ==
    \A v, w \in Vehicles :
        (/\ v # w
         /\ lastFrame[v].isActive /\ lastFrame[v].isInQueue
         /\ lastFrame[w].isActive /\ lastFrame[w].isInQueue)
            => (lastFrame[v].queueIndex # lastFrame[w].queueIndex)

(***************************************************************************)
(* The order of the grants                                                 *)
(***************************************************************************)
\* a was in the queue, waiting for a spot, when b entered it.
EnteredBefore(a, b) == a \in eqEffect[b].ahead

\* C38: waitForSpot guarantees no order among the waiters.  Whenever two
\* vehicles wait in sem_wait(&spots) and a unit is there, the one that
\* entered the queue later can take it as well as the one that entered
\* earlier: nothing in the lot keeps the order of arrival.
C38_NoFifoAmongWaiters ==
    \A a, b \in OrderVehicles :
        (/\ EnteredBefore(a, b)
         /\ pc[a] = "ws_wait"
         /\ pc[b] = "ws_wait"
         /\ spots > 0)
            => (ENABLED WaitForSpotSemWait(a) /\ ENABLED WaitForSpotSemWait(b))

\* The vehicle that entered the queue later has been granted a spot and is
\* parked, while the vehicle that entered earlier still waits in
\* sem_wait(&spots), and no unit is left.
C38_Witness ==
    \E a, b \in OrderVehicles :
        /\ EnteredBefore(a, b)
        /\ pc[b] = "parked"
        /\ spotIndex[b] \in Spots
        /\ pc[a] = "ws_wait"
        /\ spots = 0

=============================================================================
